---- MODULE Spec2Model ----
(***************************************************************************)
(* Model of the Daft.ie harvester: the pagination controller (BaseScraper, *)
(* DaftScraper), the fetch stack (UrlFetcher, RequestIntervalManager), the *)
(* update run of main.py and the listing normalizer (DaftRealEstateParser).*)
(***************************************************************************)
EXTENDS Integers, Sequences, FiniteSets, TLC

VARIABLES
    pc,                 \* position of the running call
    mode,               \* which entry point was called
    category,           \* category of the running pagination pass
    page,               \* page index of the running scrape_page
    start_page,         \* scrape_pages: first page of the range
    end_page,           \* scrape_pages: last page of the range
    ignore_ids,         \* the ignore_ids argument (NoneVal or a list)
    scraped_data,       \* scrape_pages / scrape_all_pages: the accumulator
    page_data,          \* what the last scrape_page returned
    response,           \* the response the last successful fetch returned
    requests,           \* history: the outbound requests, in order, each with
                        \* whether fetch raised
    pages_out,          \* history: what scrape_page returned for each page of
                        \* the running pagination pass
    failures,           \* number of failed fetch attempts so far
    fetch_exc,          \* the exception that left the last call of fetch
    raised,             \* the exception that escaped the entry point
    result,             \* what the entry point returned
    elapsed,            \* time.time() - RequestIntervalManager.last_request_time
    last_gap,           \* history: time between the returns of the last two
                        \* respect_interval calls (FirstCall, NoCall before)
    min_interval,       \* RequestIntervalManager.min_interval
    max_interval,       \* RequestIntervalManager.max_interval
    stored_urls,        \* the url column of the realestate table
    todo,               \* update run: categories still to scrape
    data,               \* update run: category -> raw listings
    raw_data,           \* get_real_estates: its argument, category -> raw listings
    p_pc,               \* get_real_estates: position of the call
    p_next,             \* get_real_estates: how many raw listings the loops took
    properties,         \* get_real_estates: the list being built
    parsed_urls,        \* get_real_estates: urls accepted in this call
    p_raised,           \* the exception that left get_real_estates
    p_result,           \* what get_real_estates returned
    data_obj,           \* the caller's data object, as the calls left it
    p_first,            \* history: what the first call was given and returned
    i_pc,               \* insert phase of the update run: position
    i_ignore_ids,       \* insert phase: the second get_real_estate_urls()
    i_next,             \* insert phase: how many RealEstates the loop took
    scraped_urls,       \* insert phase: urls inserted in this run
    inserted,           \* history: the arguments of insert_real_estate
    price_history,      \* RealEstate.price_history of one RealEstate
    ph_data,            \* the data argument of the last PriceHistory.from_dict
    ph_category,        \* its category argument
    ph_result,          \* what it returned
    ph_raised,          \* the exception that left it
    ph_current          \* history: the current argument of the last add_price

scraperVars ==
    <<pc, mode, category, page, start_page, end_page, ignore_ids, scraped_data,
      page_data, response, requests, pages_out, failures, fetch_exc, raised,
      result, elapsed, last_gap, min_interval, max_interval, stored_urls, todo,
      data>>

parserVars ==
    <<raw_data, p_pc, p_next, properties, parsed_urls, p_raised, p_result,
      data_obj, p_first>>

insertVars == <<i_pc, i_ignore_ids, i_next, scraped_urls, inserted>>

priceVars ==
    <<price_history, ph_data, ph_category, ph_result, ph_raised, ph_current>>

\* What the actions of the fetch phase leave alone
afterFetchVars == <<parserVars, insertVars, priceVars>>

vars == <<scraperVars, afterFetchVars>>

-----------------------------------------------------------------------------
(* Bounds of the model *)

MaxPage == 3        \* highest page index the upstream is asked for
MaxFailures == 2    \* failed fetch attempts in one run
StartTime == 50     \* time.time() when the process starts
MaxElapsed == 4     \* longest time a client lets pass between two fetches
MaxOversleep == 1   \* longest time time.sleep returns late by
MaxCalls == 4       \* fetch calls of the client of one UrlFetcher
MaxInterval == 3    \* largest max_interval of the managers tried
MaxBatch == 2       \* raw listings in one call of get_real_estates
MaxHistory == 3     \* entries of the price history of one RealEstate

-----------------------------------------------------------------------------
(* Values *)

NoneVal == "None"

Origin == "https://www.daft.ie"
Paths == {"/a", "/b"}
Ids == Paths \cup {NoneVal}

\* A raw item of the listings array: {"listing": {"seoFriendlyPath": ...}}
Item(p) == [listing |-> [seoFriendlyPath |-> p]]
Items == {Item(p) : p \in Ids}

\* The listings arrays the upstream answers with: empty, one listing, two
\* listings, the same listing twice, a listing without seoFriendlyPath
ListingsArrays ==
    {<<>>, <<Item("/a")>>, <<Item("/b")>>, <<Item("/a"), Item("/b")>>,
     <<Item("/b"), Item("/b")>>, <<Item(NoneVal), Item("/a")>>}
Range(s) == {s[i] : i \in 1..Len(s)}

\* Response bodies: a JSON object {"listings": [...]}, a JSON list, or no JSON
Body(shape, listings) == [shape |-> shape, listings |-> listings]
WellFormedBodies == {Body("json_dict", l) : l \in ListingsArrays}
MalformedBodies == {Body("json_list", <<>>), Body("not_json", <<>>)}
Bodies == WellFormedBodies \cup MalformedBodies

\* A Python argument that is None or a list
NoneList == [is_none |-> TRUE, list |-> <<>>]
SomeList(l) == [is_none |-> FALSE, list |-> l]

\* Exceptions: type, and the attributes ScraperException carries
Exc(type, error_code, message, cause) ==
    [type |-> type, error_code |-> error_code, message |-> message, cause |-> cause]
NoExc == Exc("NoExc", NoneVal, NoneVal, NoneVal)

\* Base class of each exception type
BaseOf(type) ==
    CASE type = "ScraperNetworkException" -> "ScraperException"
      [] type = "ScraperException" -> "Exception"
      [] type = "requests.ConnectionError" -> "RequestException"
      [] type = "requests.Timeout" -> "RequestException"
      [] type = "requests.HTTPError" -> "RequestException"
      [] type = "requests.JSONDecodeError" -> "RequestException"
      [] type = "RequestException" -> "OSError"
      [] type = "ConnectionError" -> "OSError"
      [] type = "TimeoutError" -> "OSError"
      [] type = "OSError" -> "Exception"
      [] type = "AttributeError" -> "Exception"
      [] OTHER -> "BaseException"

RECURSIVE IsInstance(_, _)
IsInstance(type, cls) ==
    IF type = cls THEN TRUE
    ELSE IF type \in {"BaseException", "NoExc"} THEN FALSE
    ELSE IsInstance(BaseOf(type), cls)

-----------------------------------------------------------------------------
(* RequestIntervalManager *)

\* random.uniform(min_interval, max_interval), in whole seconds
uniform(lo, hi) == lo..hi

\* last_gap before any call returned, and after the first one returned
NoCall == [returned |-> FALSE, between |-> <<>>, waited |-> <<>>, slept |-> <<>>]
FirstCall == [returned |-> TRUE, between |-> <<>>, waited |-> <<>>, slept |-> <<>>]

\* last_gap after a later call returned d after the call before it; the call
\* found e elapsed since then, and nap holds the argument of its time.sleep,
\* if it slept
Call(d, e, nap) == [returned |-> TRUE, between |-> <<d>>, waited |-> <<e>>, slept |-> nap]

\* A call that returned d after the call before it, without sleeping
Gap(d) == Call(d, d, <<>>)

\* time.sleep(d) returns once at least d has passed: the time it takes
sleep(d, over) == d + over

\* Mutant: the comparison with min_interval is inverted
respect_interval_inverted(u, over) ==
    LET slept == IF elapsed > min_interval THEN sleep(u, over) ELSE 0
    IN  /\ elapsed' = 0
        /\ last_gap' = IF last_gap = NoCall THEN FirstCall ELSE Gap(elapsed + slept)

\* Mutant: the sleep is the draw, whatever has elapsed
respect_interval_full_sleep(u, over) ==
    /\ elapsed' = 0
    /\ last_gap' = IF last_gap = NoCall THEN FirstCall
                   ELSE IF elapsed < min_interval
                   THEN Call(elapsed + sleep(u, over), elapsed, <<u>>)
                   ELSE Gap(elapsed)

\* RequestIntervalManager.respect_interval: u is the random draw, over the
\* time time.sleep returns late by. Time is kept relative to
\* last_request_time, which the call sets to the time it returns at.
respect_interval(u, over) ==
    /\ elapsed' = 0
    /\ last_gap' = IF last_gap = NoCall THEN FirstCall
                   ELSE IF elapsed < min_interval
                   THEN Call(elapsed + sleep(u - elapsed, over), elapsed, <<u - elapsed>>)
                   ELSE Gap(elapsed)

-----------------------------------------------------------------------------
(* UrlFetcher *)

\* What session.request and raise_for_status do with the request
FailureOutcomes == {"http_error", "connection_error", "timeout"}
Outcomes == {"ok"} \cup FailureOutcomes

\* The exception session.request raises on a transport failure
TransportError(outcome) ==
    IF outcome = "connection_error"
    THEN Exc("requests.ConnectionError", NoneVal, NoneVal, NoneVal)
    ELSE Exc("requests.Timeout", NoneVal, NoneVal, NoneVal)

\* The exception fetch raises from the failure of raise_for_status
StatusError ==
    Exc("ScraperNetworkException", "NETWORK_ERROR",
        "Network error occurred while fetching", "requests.HTTPError")

\* The exception that leaves UrlFetcher.fetch, NoExc when it returns
fetch_raises(outcome) ==
    CASE outcome = "ok" -> NoExc
      [] outcome = "http_error" -> StatusError
      [] OTHER -> TransportError(outcome)

\* UrlFetcher.fetch: waits its turn, issues the request, returns the
\* response or raises
fetch(inputs, u, over, outcome, body) ==
    /\ respect_interval(u, over)
    /\ requests' = Append(requests, [page |-> inputs.page, payload |-> inputs.payload,
                                      failed |-> fetch_raises(outcome) # NoExc])
    /\ fetch_exc' = fetch_raises(outcome)
    /\ response' = IF outcome = "ok" THEN body ELSE response

-----------------------------------------------------------------------------
(* DaftScraper *)

PageSize == 20

\* Python's "sub in s" on strings
str_contains(s, sub) ==
    \E i \in 1..(Len(s) - Len(sub) + 1) : SubSeq(s, i, i + Len(sub) - 1) = sub

\* DaftScraper.get_url_payload: the paging and section part of the payload
get_url_payload(p, c) ==
    IF ~str_contains(c, "sold")
    THEN [section |-> c, adState |-> "published", sort |-> "publishDateDesc",
          from |-> PageSize * p, pageSize |-> PageSize]
    ELSE [section |-> "residential-sold", adState |-> NoneVal, sort |-> "soldDateDesc",
          from |-> PageSize * p, pageSize |-> PageSize]

\* item.get("listing", dict()).get("seoFriendlyPath")
current_id(item) == item.listing.seoFriendlyPath

\* Mutant: only the last id added is looked at
in_ignore_ids_last_only(id, ign) == ign # <<>> /\ id = ign[Len(ign)]

\* "current_id in ignore_ids"
in_ignore_ids(id, ign) == id \in Range(ign)

\* Mutant: the loop does not add the id of an admitted item to the list
RECURSIVE parse_loop_no_add(_, _, _)
parse_loop_no_add(items, filtered_listings, ign) ==
    IF items = <<>> THEN [filtered |-> filtered_listings, ignore |-> ign]
    ELSE IF in_ignore_ids(current_id(Head(items)), ign)
         THEN parse_loop_no_add(Tail(items), filtered_listings, ign)
         ELSE parse_loop_no_add(Tail(items), Append(filtered_listings, Head(items)), ign)

\* The loop of DaftScraper.parse over the listings: the filtered listings
\* and the ignore list it leaves
RECURSIVE parse_loop(_, _, _)
parse_loop(items, filtered_listings, ign) ==
    IF items = <<>> THEN [filtered |-> filtered_listings, ignore |-> ign]
    ELSE IF in_ignore_ids(current_id(Head(items)), ign)
         THEN parse_loop(Tail(items), filtered_listings, ign)
         ELSE parse_loop(Tail(items), Append(filtered_listings, Head(items)),
                         Append(ign, current_id(Head(items))))

\* Mutant: parse swallows the error of a body of another shape
parse_raises_swallowed(body) ==
    IF body.shape = "not_json"
    THEN Exc("requests.JSONDecodeError", NoneVal, NoneVal, NoneVal)
    ELSE NoExc

\* The exception DaftScraper.parse raises on the body, NoExc when it parses
parse_raises(body) ==
    CASE body.shape = "not_json" ->
            Exc("requests.JSONDecodeError", NoneVal, NoneVal, NoneVal)
      [] body.shape = "json_list" ->
            Exc("AttributeError", NoneVal, NoneVal, NoneVal)
      [] OTHER -> NoExc

\* Mutant: every call starts from a fresh list
parse_fresh_list(body, ign_arg) == parse_loop(body.listings, <<>>, <<>>)

\* Mutant: parse records the ids on a copy of the caller's list
parse_on_copy(body, ign_arg) ==
    [filtered |-> parse_loop(body.listings, <<>>,
                             IF ign_arg.is_none THEN <<>> ELSE ign_arg.list).filtered,
     ignore |-> IF ign_arg.is_none THEN <<>> ELSE ign_arg.list]

\* DaftScraper.parse on a well-formed body; ignore_ids None starts a fresh list
parse(body, ign_arg) ==
    parse_loop(body.listings, <<>>, IF ign_arg.is_none THEN <<>> ELSE ign_arg.list)

-----------------------------------------------------------------------------
(* SQLService *)

Url(path) == Origin \o path

\* str.startswith
startswith(s, prefix) == Len(s) >= Len(prefix) /\ SubSeq(s, 1, Len(prefix)) = prefix

\* str.replace(old, ""), old not empty
RECURSIVE str_remove(_, _)
str_remove(s, old) ==
    IF Len(s) < Len(old) THEN s
    ELSE IF SubSeq(s, 1, Len(old)) = old
         THEN str_remove(SubSeq(s, Len(old) + 1, Len(s)), old)
         ELSE SubSeq(s, 1, 1) \o str_remove(SubSeq(s, 2, Len(s)), old)

\* Mutant: the urls are returned with their origin prefix
get_real_estate_urls_unstripped(urls) ==
    SelectSeq(urls, LAMBDA url : startswith(url, Origin))

\* SQLService.get_real_estate_urls over the rows of the realestate table
RECURSIVE get_real_estate_urls(_)
get_real_estate_urls(urls) ==
    IF urls = <<>> THEN <<>>
    ELSE IF startswith(Head(urls), Origin)
         THEN <<str_remove(Head(urls), Origin)>> \o get_real_estate_urls(Tail(urls))
         ELSE get_real_estate_urls(Tail(urls))

-----------------------------------------------------------------------------
(* BaseScraper and update_daft_data *)

RetryCooldown == 120

\* The categories of update_daft_data, in dict order
Categories ==
    <<"sharing", "residential-to-rent", "residential-for-sale", "new-homes",
      "holiday-homes">>

\* The except clause of scrape_page
CaughtTypes == {"ConnectionError", "TimeoutError", "RequestException",
                "ScraperNetworkException"}
\* Mutant: the except clause names ScraperNetworkException only
caught_own_only(exc) == IsInstance(exc.type, "ScraperNetworkException")

caught(exc) == \E cls \in CaughtTypes : IsInstance(exc.type, cls)

\* Mutant: the loop does not stop on an empty page
page_exhausted_never(pd) == FALSE

\* "if not page_data: break"
page_exhausted(pd) == pd = <<>>

\* Mutant: the page after next
next_page_skips(p) == p + 2

\* "page += 1", and the step of range(start_page, end_page + 1)
next_page(p) == p + 1

\* Mutant: the range runs one page past end_page
range_has_next_off_by_one(p, e) == p <= e

\* range(start_page, end_page + 1) has a page after p
range_has_next(p, e) == p < e

\* The entry points a run can call, with the arguments it passes
DirectCategories == {"residential-sold"}
IgnoreArgs == {NoneList, SomeList(<<>>), SomeList(<<"/a">>)}
StoredUrls == {<<>>, <<Url("/a")>>, <<Url("/b"), Url("/a")>>}

StartPass(m, c, p, e, ign) ==
    /\ mode' = m
    /\ category' = c
    /\ page' = p
    /\ start_page' = p
    /\ end_page' = e
    /\ pages_out' = <<>>
    /\ ignore_ids' = ign
    /\ scraped_data' = <<>>

\* A call of scrape_page(p, c, ign)
scrape_page(p, c, ign) ==
    /\ pc = "idle"
    /\ StartPass("scrape_page", c, p, p, ign)
    /\ pc' = "fetch"
    /\ UNCHANGED <<page_data, response, requests, failures, fetch_exc, raised,
                   result, elapsed, last_gap, min_interval,
                   max_interval, stored_urls, afterFetchVars, todo, data>>

\* A call of scrape_pages(s, e, c, ign): an empty range returns at once
scrape_pages(s, e, c, ign) ==
    /\ pc = "idle"
    /\ StartPass("scrape_pages", c, s, e, ign)
    /\ IF s > e
       THEN pc' = "returned" /\ result' = <<>>
       ELSE pc' = "fetch" /\ result' = result
    /\ UNCHANGED <<page_data, response, requests, failures, fetch_exc, raised,
                   elapsed, last_gap, min_interval,
                   max_interval, stored_urls, afterFetchVars, todo, data>>

\* Mutant: the pass starts at page 0
scrape_all_pages_from_zero(c, ign) ==
    /\ pc = "idle"
    /\ StartPass("scrape_all_pages", c, 0, 0, ign)
    /\ pc' = "fetch"
    /\ UNCHANGED <<page_data, response, requests, failures, fetch_exc, raised,
                   result, elapsed, last_gap, min_interval,
                   max_interval, stored_urls, afterFetchVars, todo, data>>

\* A call of scrape_all_pages(c, ign)
scrape_all_pages(c, ign) ==
    /\ pc = "idle"
    /\ StartPass("scrape_all_pages", c, 1, 0, ign)
    /\ pc' = "fetch"
    /\ UNCHANGED <<page_data, response, requests, failures, fetch_exc, raised,
                   result, elapsed, last_gap, min_interval,
                   max_interval, stored_urls, afterFetchVars, todo, data>>

\* update_daft_data up to its first scrape_all_pages
update_daft_data ==
    /\ pc = "idle"
    /\ StartPass("update_daft_data", Head(Categories), 1, 0,
                 SomeList(get_real_estate_urls(stored_urls)))
    /\ todo' = Tail(Categories)
    /\ pc' = "fetch"
    /\ UNCHANGED <<page_data, response, requests, failures, fetch_exc, raised,
                   result, elapsed, last_gap, min_interval,
                   max_interval, stored_urls, afterFetchVars, data>>

\* scrape_page: one attempt of the retry loop
scrape_page_fetch(u, outcome, body) ==
    /\ pc = "fetch"
    /\ outcome # "ok" => failures < MaxFailures
    /\ fetch([page |-> page, payload |-> get_url_payload(page, category)],
             u, 0, outcome, body)
    /\ failures' = IF outcome = "ok" THEN failures ELSE failures + 1
    /\ IF fetch_exc' = NoExc THEN pc' = "parse" /\ raised' = raised
       ELSE IF caught(fetch_exc') THEN pc' = "cooldown" /\ raised' = raised
       ELSE pc' = "raised" /\ raised' = fetch_exc'
    /\ UNCHANGED <<mode, category, page, start_page, end_page, ignore_ids,
                   scraped_data, page_data, pages_out, result, min_interval,
                   max_interval, stored_urls, afterFetchVars, todo, data>>

\* scrape_page: sleep(120) in the except clause, then the next attempt
scrape_page_cooldown ==
    /\ pc = "cooldown"
    /\ elapsed' = elapsed + sleep(RetryCooldown, 0)
    /\ pc' = "fetch"
    /\ UNCHANGED <<mode, category, page, start_page, end_page, ignore_ids,
                   scraped_data, page_data, response, requests, pages_out,
                   failures, fetch_exc, raised, result, last_gap, min_interval,
                   max_interval, stored_urls, afterFetchVars, todo, data>>

\* The pagination pass ends with scraped: the entry point returns, or
\* update_daft_data stores the category and starts the next one
EndPass(scraped) ==
    IF mode = "update_daft_data"
    THEN /\ data' = data \o <<[category |-> category, listings |-> scraped]>>
         /\ IF todo = <<>>
            THEN /\ pc' = "returned"
                 /\ UNCHANGED <<category, todo, page>>
            ELSE /\ pc' = "fetch"
                 /\ category' = Head(todo)
                 /\ todo' = Tail(todo)
                 /\ page' = 1
         /\ scraped_data' = <<>>
         /\ pages_out' = IF todo = <<>> THEN Append(pages_out, page_data') ELSE <<>>
         /\ result' = result
    ELSE /\ pc' = "returned"
         /\ result' = scraped
         /\ scraped_data' = scraped
         /\ pages_out' = Append(pages_out, page_data')
         /\ UNCHANGED <<category, todo, page, data>>

\* Mutant: the error of parse takes the ids of the pass back out of the list
scrape_page_parse_rolls_back ==
    /\ pc = "parse"
    /\ IF parse_raises(response) # NoExc
       THEN /\ pc' = "raised"
            /\ raised' = parse_raises(response)
            /\ ignore_ids' =
                  IF ignore_ids.is_none THEN ignore_ids
                  ELSE SomeList(SelectSeq(ignore_ids.list,
                                          LAMBDA id : \A i \in 1..Len(scraped_data) :
                                              id # current_id(scraped_data[i])))
            /\ UNCHANGED <<category, page, scraped_data, page_data,
                           pages_out, result, todo, data>>
       ELSE LET parsed == parse(response, ignore_ids) IN
            /\ page_data' = parsed.filtered
            /\ ignore_ids' = IF ignore_ids.is_none THEN ignore_ids
                             ELSE SomeList(parsed.ignore)
            /\ raised' = raised
            /\ IF mode = "scrape_page"
               THEN /\ pc' = "returned"
                    /\ result' = parsed.filtered
                    /\ pages_out' = Append(pages_out, parsed.filtered)
                    /\ UNCHANGED <<category, page, scraped_data, todo, data>>
               ELSE IF page_exhausted(parsed.filtered)
               THEN EndPass(scraped_data)
               ELSE IF mode = "scrape_pages" /\ ~range_has_next(page, end_page)
               THEN EndPass(scraped_data \o parsed.filtered)
               ELSE /\ page < MaxPage
                    /\ scraped_data' = scraped_data \o parsed.filtered
                    /\ page' = next_page(page)
                    /\ pages_out' = Append(pages_out, parsed.filtered)
                    /\ pc' = "fetch"
                    /\ UNCHANGED <<category, result, todo, data>>
    /\ UNCHANGED <<mode, start_page, end_page, response, requests, failures,
                   fetch_exc, elapsed, last_gap, min_interval, max_interval,
                   stored_urls, afterFetchVars>>

\* scrape_page: "return self.parse(response, ignore_ids)", and what the
\* caller does with the page
scrape_page_parse ==
    /\ pc = "parse"
    /\ IF parse_raises(response) # NoExc
       THEN /\ pc' = "raised"
            /\ raised' = parse_raises(response)
            /\ UNCHANGED <<category, page, ignore_ids, scraped_data, page_data,
                           pages_out, result, todo, data>>
       ELSE LET parsed == parse(response, ignore_ids) IN
            /\ page_data' = parsed.filtered
            /\ ignore_ids' = IF ignore_ids.is_none THEN ignore_ids
                             ELSE SomeList(parsed.ignore)
            /\ raised' = raised
            /\ IF mode = "scrape_page"
               THEN /\ pc' = "returned"
                    /\ result' = parsed.filtered
                    /\ pages_out' = Append(pages_out, parsed.filtered)
                    /\ UNCHANGED <<category, page, scraped_data, todo, data>>
               ELSE IF page_exhausted(parsed.filtered)
               THEN EndPass(scraped_data)
               ELSE IF mode = "scrape_pages" /\ ~range_has_next(page, end_page)
               THEN EndPass(scraped_data \o parsed.filtered)
               ELSE /\ page < MaxPage
                    /\ scraped_data' = scraped_data \o parsed.filtered
                    /\ page' = next_page(page)
                    /\ pages_out' = Append(pages_out, parsed.filtered)
                    /\ pc' = "fetch"
                    /\ UNCHANGED <<category, result, todo, data>>
    /\ UNCHANGED <<mode, start_page, end_page, response, requests, failures,
                   fetch_exc, elapsed, last_gap, min_interval, max_interval,
                   stored_urls, afterFetchVars>>

\* The state every run starts in: DaftScraper() constructed, nothing called
Start ==
    /\ pc = "idle"
    /\ mode = "none"
    /\ category = ""
    /\ page = 0
    /\ start_page = 0
    /\ end_page = 0
    /\ pages_out = <<>>
    /\ ignore_ids = NoneList
    /\ scraped_data = <<>>
    /\ page_data = <<>>
    /\ response = Body("json_dict", <<>>)
    /\ requests = <<>>
    /\ failures = 0
    /\ fetch_exc = NoExc
    /\ raised = NoExc
    /\ result = <<>>
    /\ elapsed = StartTime - 0
    /\ last_gap = NoCall
    /\ min_interval = 7
    /\ max_interval = 10
    /\ todo = <<>>
    /\ data = <<>>

\* Nothing that follows the fetch phase has started
ParserIdle ==
    /\ raw_data = <<>>
    /\ p_pc = "idle"
    /\ p_next = 0
    /\ properties = <<>>
    /\ parsed_urls = {}
    /\ p_raised = NoExc
    /\ p_result = <<>>
    /\ data_obj = <<>>
    /\ p_first = <<>>
    /\ i_pc = "idle"
    /\ i_ignore_ids = <<>>
    /\ i_next = 0
    /\ scraped_urls = {}
    /\ inserted = <<>>
    /\ price_history = <<>>
    /\ ph_data = <<>>
    /\ ph_category = NoneVal
    /\ ph_result = <<>>
    /\ ph_raised = NoExc
    /\ ph_current = <<>>

-----------------------------------------------------------------------------
(* Spec: one call of scrape_page, scrape_pages or scrape_all_pages on a    *)
(* DaftScraper, against an upstream that answers each request freely      *)

Init ==
    /\ Start
    /\ ParserIdle
    /\ stored_urls = <<>>

Next ==
    \/ \E p \in 1..MaxPage, c \in DirectCategories, ign \in IgnoreArgs :
          scrape_page(p, c, ign)
    \/ \E s \in 1..MaxPage, e \in 0..MaxPage, c \in DirectCategories, ign \in IgnoreArgs :
          scrape_pages(s, e, c, ign)
    \/ \E c \in DirectCategories, ign \in IgnoreArgs : scrape_all_pages(c, ign)
    \/ \E u \in uniform(min_interval, max_interval), body \in Bodies :
          scrape_page_fetch(u, "ok", body)
    \/ \E u \in uniform(min_interval, max_interval), outcome \in FailureOutcomes :
          scrape_page_fetch(u, outcome, response)
    \/ scrape_page_cooldown
    \/ scrape_page_parse

Spec == Init /\ [][Next]_vars

-----------------------------------------------------------------------------
(* SpecTerminate: one call of scrape_all_pages against an upstream that    *)
(* offers the listings of Paths and no others, every step of the call      *)
(* taken in turn and no fetch failing for ever                             *)

\* The responses of an upstream whose listings all have a path of Paths
OfferedBodies ==
    {body \in Bodies :
        \A i \in 1..Len(body.listings) : current_id(body.listings[i]) \in Paths}

NextTerminate ==
    \/ \E c \in DirectCategories, ign \in IgnoreArgs : scrape_all_pages(c, ign)
    \/ \E u \in uniform(min_interval, max_interval), body \in OfferedBodies :
          scrape_page_fetch(u, "ok", body)
    \/ \E u \in uniform(min_interval, max_interval), outcome \in FailureOutcomes :
          scrape_page_fetch(u, outcome, response)
    \/ scrape_page_cooldown
    \/ scrape_page_parse

\* The call runs on one thread, so its next statement is always taken; the
\* attempts of the retry loop of scrape_page do not fail for ever
FairTerminate ==
    /\ WF_vars(scrape_page_parse)
    /\ WF_vars(scrape_page_cooldown)
    /\ SF_vars(\E u \in uniform(min_interval, max_interval), body \in OfferedBodies :
                  scrape_page_fetch(u, "ok", body))

SpecTerminate == Init /\ [][NextTerminate]_vars /\ FairTerminate

-----------------------------------------------------------------------------
(* SpecUpdate: one run of update_daft_data over a store that holds some    *)
(* listings                                                                *)

UpdateBodies ==
    {Body("json_dict", <<>>), Body("json_dict", <<Item("/a")>>),
     Body("json_dict", <<Item("/a"), Item("/b")>>),
     Body("json_dict", <<Item("/b"), Item("/b")>>), Body("not_json", <<>>)}
UpdateFailures == {"http_error", "timeout"}

InitUpdate ==
    /\ Start
    /\ ParserIdle
    /\ stored_urls \in StoredUrls

NextUpdate ==
    \/ update_daft_data
    \/ \E u \in {min_interval, max_interval}, body \in UpdateBodies :
          scrape_page_fetch(u, "ok", body)
    \/ \E u \in {min_interval, max_interval}, outcome \in UpdateFailures :
          scrape_page_fetch(u, outcome, response)
    \/ scrape_page_cooldown
    \/ scrape_page_parse

SpecUpdate == InitUpdate /\ [][NextUpdate]_vars

-----------------------------------------------------------------------------
(* SpecThrottle: any client calling fetch on one UrlFetcher whose          *)
(* RequestIntervalManager has any min_interval <= max_interval, letting    *)
(* any time pass between two calls                                         *)


ClientInputs == [page |-> 1, payload |-> get_url_payload(1, "sharing")]

\* The client calls UrlFetcher.fetch
client_fetch(u, over, outcome) ==
    /\ pc = "idle"
    /\ Len(requests) < MaxCalls
    /\ fetch(ClientInputs, u, over, outcome, Body("json_dict", <<>>))
    /\ UNCHANGED <<pc, mode, category, page, start_page, end_page, ignore_ids,
                   scraped_data, page_data, pages_out, failures, raised, result,
                   min_interval, max_interval, stored_urls, afterFetchVars, todo, data>>

\* Time passes at the client: d seconds of its own work
client_works(d) ==
    /\ pc = "idle"
    /\ elapsed + d <= MaxElapsed
    /\ elapsed' = elapsed + d
    /\ UNCHANGED <<pc, mode, category, page, start_page, end_page, ignore_ids,
                   scraped_data, page_data, response, requests, pages_out,
                   failures, fetch_exc, raised, result, last_gap, min_interval,
                   max_interval, stored_urls, afterFetchVars, todo, data>>

\* The client is scrape_page's retry loop: sleep(120) after a failed fetch
client_cooldown ==
    /\ pc = "idle"
    /\ fetch_exc # NoExc
    /\ elapsed = 0
    /\ elapsed' = elapsed + sleep(RetryCooldown, 0)
    /\ UNCHANGED <<pc, mode, category, page, start_page, end_page, ignore_ids,
                   scraped_data, page_data, response, requests, pages_out,
                   failures, fetch_exc, raised, result, last_gap, min_interval,
                   max_interval, stored_urls, afterFetchVars, todo, data>>

InitThrottle ==
    /\ pc = "idle"
    /\ mode = "none"
    /\ category = ""
    /\ page = 0
    /\ start_page = 0
    /\ end_page = 0
    /\ pages_out = <<>>
    /\ ignore_ids = NoneList
    /\ scraped_data = <<>>
    /\ page_data = <<>>
    /\ response = Body("json_dict", <<>>)
    /\ requests = <<>>
    /\ failures = 0
    /\ fetch_exc = NoExc
    /\ raised = NoExc
    /\ result = <<>>
    /\ elapsed = StartTime - 0
    /\ last_gap = NoCall
    /\ max_interval \in 0..MaxInterval
    /\ min_interval \in 0..max_interval
    /\ stored_urls = <<>>
    /\ todo = <<>>
    /\ data = <<>>
    /\ ParserIdle

NextThrottle ==
    \/ \E u \in uniform(min_interval, max_interval), over \in 0..MaxOversleep,
          outcome \in Outcomes :
          client_fetch(u, over, outcome)
    \/ \E d \in 1..MaxElapsed : client_works(d)
    \/ client_cooldown

SpecThrottle == InitThrottle /\ [][NextThrottle]_vars

-----------------------------------------------------------------------------
(* Strings, and the optional values of Python *)

Absent == "Absent"      \* a key the dict does not hold

\* None and a value, for values that are not strings
NoVal == <<>>
Some(v) == <<v>>

\* The character of s at place i, "" past its end
char(s, i) == IF i \in 1..Len(s) THEN SubSeq(s, i, i) ELSE ""

\* The characters of s from place i to place j, as far as s goes
slice(s, i, j) == SubSeq(s, i, IF j > Len(s) THEN Len(s) ELSE j)

Digits == {"0", "1", "2", "3", "4", "5", "6", "7", "8", "9"}
Whitespace == {" "}

DigitValue(c) ==
    CASE c = "0" -> 0 [] c = "1" -> 1 [] c = "2" -> 2 [] c = "3" -> 3
      [] c = "4" -> 4 [] c = "5" -> 5 [] c = "6" -> 6 [] c = "7" -> 7
      [] c = "8" -> 8 [] c = "9" -> 9

LowerCase == "abcdefghijklmnopqrstuvwxyz"
UpperCase == "ABCDEFGHIJKLMNOPQRSTUVWXYZ"

\* str.upper and str.lower
RECURSIVE upper(_)
upper(s) ==
    IF s = "" THEN ""
    ELSE LET at == {i \in 1..26 : char(LowerCase, i) = char(s, 1)}
         IN  (IF at = {} THEN char(s, 1) ELSE char(UpperCase, CHOOSE i \in at : TRUE))
             \o upper(SubSeq(s, 2, Len(s)))

RECURSIVE lower(_)
lower(s) ==
    IF s = "" THEN ""
    ELSE LET at == {i \in 1..26 : char(UpperCase, i) = char(s, 1)}
         IN  (IF at = {} THEN char(s, 1) ELSE char(LowerCase, CHOOSE i \in at : TRUE))
             \o lower(SubSeq(s, 2, Len(s)))

\* How many characters of s, from place i on, are in the set S in a row
RECURSIVE run_len(_, _, _)
run_len(s, i, S) ==
    IF i > Len(s) \/ char(s, i) \notin S THEN 0 ELSE 1 + run_len(s, i + 1, S)

\* str.strip
strip(s) ==
    LET lead == run_len(s, 1, Whitespace)
        rest == SubSeq(s, lead + 1, Len(s))
        last == {i \in 1..Len(rest) : char(rest, i) \notin Whitespace}
    IN  IF last = {} THEN ""
        ELSE SubSeq(rest, 1, CHOOSE i \in last : \A j \in last : j <= i)

\* str.split()[0]: the first run of non-blank characters, "" standing for
\* the IndexError of an empty split
first_token(s) ==
    LET lead == run_len(s, 1, Whitespace)
        rest == SubSeq(s, lead + 1, Len(s))
        blank == {i \in 1..Len(rest) : char(rest, i) \in Whitespace}
    IN  IF blank = {} THEN rest
        ELSE SubSeq(rest, 1, (CHOOSE i \in blank : \A j \in blank : i <= j) - 1)

\* The value of a run of digits
RECURSIVE digits_value(_)
digits_value(s) ==
    IF s = "" THEN 0
    ELSE 10 * digits_value(SubSeq(s, 1, Len(s) - 1)) + DigitValue(char(s, Len(s)))

\* Whether int(s) converts, for s without sign, blanks or underscores
is_int(s) == s # "" /\ \A i \in 1..Len(s) : char(s, i) \in Digits

\* The second group of the two price patterns, from place i on:
\* digits and commas, then \.?\d*
number_group(s, i) ==
    LET n1 == run_len(s, i, Digits \cup {","})
        dot == IF i + n1 <= Len(s) /\ char(s, i + n1) = "." THEN 1 ELSE 0
        n2 == run_len(s, i + n1 + dot, Digits)
    IN  SubSeq(s, i, i + n1 + dot + n2 - 1)

ValueError == Exc("ValueError", NoneVal, NoneVal, NoneVal)
KeyError == Exc("KeyError", NoneVal, NoneVal, NoneVal)
TypeError == Exc("TypeError", NoneVal, NoneVal, NoneVal)
AttributeError == Exc("AttributeError", NoneVal, NoneVal, NoneVal)

-----------------------------------------------------------------------------
(* models.py: RelaEstateAdvertEnum, PriceHistory, RealEstate.add_price *)

RENT == "Rent"
SALE == "Sale"
SHARE == "Share"
SOLD == "Sold"

\* The dataclass PriceHistory; price and timestamp are None or a value
PriceHistory(price, timestamp, current, source, currency, advert_type) ==
    [price |-> price, timestamp |-> timestamp, current |-> current,
     source |-> source, currency |-> currency, category |-> advert_type]

\* What a function returned or raised
Returned(v) == [exc |-> NoExc, value |-> <<v>>]
Raised(e) == [exc |-> e, value |-> <<>>]

\* The strings of the model are ASCII: the euro sign and the pound sign of the
\* price texts and of the patterns are the two characters below, which no
\* other text of the model holds
Euro == "@"
Pound == "#"

\* PriceHistory.parse_price: re.search of ([€£$])?([\d,]+\.?\d*), then int()
\* of the number without its commas; the pair (price, currency)
PriceHistory_parse_price(price_str) ==
    LET DC == Digits \cup {","}
        Symbols == {Euro, Pound, "$"}
        starts == {i \in 1..Len(price_str) :
                     \/ char(price_str, i) \in DC
                     \/ /\ char(price_str, i) \in Symbols
                        /\ i < Len(price_str)
                        /\ char(price_str, i + 1) \in DC}
        at == CHOOSE i \in starts : \A j \in starts : i <= j
        symbol == char(price_str, at) \in Symbols
        number == str_remove(number_group(price_str, IF symbol THEN at + 1 ELSE at), ",")
    IN  IF price_str = NoneVal THEN Raised(TypeError)
        ELSE IF starts = {} THEN Raised(ValueError)
        ELSE IF ~is_int(number) THEN Raised(ValueError)
        ELSE Returned([price |-> digits_value(number),
                       currency |-> IF symbol THEN char(price_str, at) ELSE Euro])

DaysIn(month, year) ==
    IF month \in {4, 6, 9, 11} THEN 30
    ELSE IF month # 2 THEN 31
    ELSE IF year % 4 = 0 /\ (year % 100 # 0 \/ year % 400 = 0) THEN 29
    ELSE 28

\* datetime.strptime(s, "%d/%m/%Y"): the date as <<year, month, day>>
strptime(date) ==
    LET nd == run_len(date, 1, Digits)
        nm == run_len(date, nd + 2, Digits)
        ny == run_len(date, nd + nm + 3, Digits)
        day == digits_value(SubSeq(date, 1, IF nd > 2 THEN 2 ELSE nd))
        month == digits_value(SubSeq(date, nd + 2, nd + 1 + nm))
        year == digits_value(SubSeq(date, nd + nm + 3, nd + nm + 2 + ny))
    IN  IF /\ nd \in {1, 2} /\ nm \in {1, 2} /\ ny = 4
           /\ Len(date) = nd + nm + ny + 2
           /\ char(date, nd + 1) = "/" /\ char(date, nd + nm + 2) = "/"
           /\ month \in 1..12 /\ year >= 1 /\ day >= 1 /\ day <= DaysIn(month, year)
        THEN Returned(<<year, month, day>>)
        ELSE Raised(ValueError)

\* An entry of "priceHistory": the values of its keys, Absent for a key it
\* does not hold; current is NoVal or Some(flag)
PriceData(price, date, direction, priceDifference, current) ==
    [price |-> price, date |-> date, direction |-> direction,
     priceDifference |-> priceDifference, current |-> current]

\* An entry that states a price and a date
Listed == PriceData(Euro \o "200,000", "15/03/2024", Absent, Absent, NoVal)

\* dict.get(key, default) on a value of the model
get(value, default) == IF value = Absent THEN default ELSE value

\* Mutant: the difference is applied in the stated direction
from_dict_same_direction(d, c) ==
    LET price == PriceHistory_parse_price(d.price)
        timestamp == strptime(d.date)
        direction == upper(get(d.direction, ""))
        price_difference == PriceHistory_parse_price(get(d.priceDifference, Euro \o "0"))
        real_price == IF direction = "DECREASE"
                      THEN price.value[1].price - price_difference.value[1].price
                      ELSE IF direction = "INCREASE"
                      THEN price.value[1].price + price_difference.value[1].price
                      ELSE price.value[1].price
    IN  IF c \notin {RENT, SALE} THEN Raised(ValueError)
        ELSE IF d.price = Absent THEN Raised(KeyError)
        ELSE IF price.exc # NoExc THEN price
        ELSE IF d.date = Absent THEN Raised(KeyError)
        ELSE IF timestamp.exc # NoExc THEN timestamp
        ELSE IF price_difference.exc # NoExc THEN price_difference
        ELSE Returned(PriceHistory(Some(real_price), timestamp.value, IF d.current = NoVal THEN FALSE ELSE d.current[1],
                                   NoneVal, price.value[1].currency, c))

\* PriceHistory.from_dict(data, category)
from_dict(d, c) ==
    LET price == PriceHistory_parse_price(d.price)
        timestamp == strptime(d.date)
        direction == upper(get(d.direction, ""))
        price_difference == PriceHistory_parse_price(get(d.priceDifference, Euro \o "0"))
        real_price == IF direction = "DECREASE"
                      THEN price.value[1].price + price_difference.value[1].price
                      ELSE IF direction = "INCREASE"
                      THEN price.value[1].price - price_difference.value[1].price
                      ELSE price.value[1].price
    IN  IF c \notin {RENT, SALE} THEN Raised(ValueError)
        ELSE IF d.price = Absent THEN Raised(KeyError)
        ELSE IF price.exc # NoExc THEN price
        ELSE IF d.date = Absent THEN Raised(KeyError)
        ELSE IF timestamp.exc # NoExc THEN timestamp
        ELSE IF price_difference.exc # NoExc THEN price_difference
        ELSE Returned(PriceHistory(Some(real_price), timestamp.value, IF d.current = NoVal THEN FALSE ELSE d.current[1],
                                   NoneVal, price.value[1].currency, c))

\* "if old_price not in price_history: price_history.append(old_price)"
append_new(history, entry) ==
    IF \E i \in 1..Len(history) : history[i] = entry THEN history
    ELSE Append(history, entry)

\* datetime.now()
Now == <<2026, 11, 1>>

\* Mutant: the entries already in the history keep their flag
add_price_keeps_flags(history, price, timestamp, current, source) ==
    Append(history,
           PriceHistory(Some(price), IF timestamp = NoVal THEN Some(Now) ELSE timestamp,
                        current, source, Euro, RENT))

\* RealEstate.add_price on the price history of the RealEstate
add_price(history, price, timestamp, current, source) ==
    Append([i \in 1..Len(history) |-> [history[i] EXCEPT !.current = FALSE]],
           PriceHistory(Some(price), IF timestamp = NoVal THEN Some(Now) ELSE timestamp,
                        current, source, Euro, RENT))

-----------------------------------------------------------------------------
(* DaftRealEstateParser *)

\* The raw listings of the model hold the keys below. The keys the parser
\* pops and drops, and point, floorArea and offers, are left out: the raw
\* listings tried do not hold them. publishDate is NoVal for a raw listing
\* without the key, else Some(day), the day whose first instant
\* datetime.fromtimestamp makes of its milliseconds.

\* A sub-unit: its path, whether it has "media", the rating of its "ber"
\* (Absent: no "ber"), and its price, rooms, type and image urls
Unit(path, media, ber) ==
    [seoFriendlyPath |-> path, has_media |-> media, ber |-> ber,
     price |-> Euro \o "1,500 per month", numBedrooms |-> "1 Bed",
     numBathrooms |-> "1 Bath", propertyType |-> "Apartment", images |-> <<>>]

\* A development container (prs or newHome), as a list of at most one record:
\* whether it has "tagLine", its "developmentName", and its "subUnits" as a
\* list of at most one list
NoContainer == <<>>
Container(tagLine, developmentName, subUnits) ==
    <<[has_tagLine |-> tagLine, developmentName |-> developmentName,
       subUnits |-> subUnits]>>

\* The "listing" of a raw item
Raw(path, title, seoTitle, ber, prs, newHome) ==
    [seoFriendlyPath |-> path, title |-> title, seoTitle |-> seoTitle,
     ber |-> ber, prs |-> prs, newHome |-> newHome,
     seller |-> "Agent", images |-> <<"img0">>, category |-> "Rent",
     price |-> Euro \o "2,000 per month", soldPrice |-> Absent, soldDate |-> Absent,
     sections |-> <<"Property", "Residential">>,
     numBedrooms |-> "3 Bed", numBathrooms |-> "2 Bath",
     propertySize |-> "85 m2", dateOfConstruction |-> "1998",
     priceHistory |-> <<>>, propertyType |-> "House", publishDate |-> NoVal]

\* What parse_price returns for a price it finds no number in
NoPrice == Returned([price |-> NoVal, frequency |-> NoneVal, currency_symbol |-> NoneVal])

\* "price = int(match.group(2).replace(",", ""))" and the returned dict;
\* symbol is the length of group 1, word is group 4
price_of(text, symbol, number, word) ==
    IF ~is_int(number) THEN Raised(ValueError)
    ELSE Returned([price |-> Some(digits_value(number)),
                   frequency |-> IF word = "" THEN "month" ELSE word,
                   currency_symbol |-> IF symbol = 1 THEN char(text, 1) ELSE Euro])

\* Group 4 of the pattern, (month|week) at position unit, "" if it is not there
frequency_word(text, unit) ==
    IF lower(slice(text, unit, unit + 4)) = "month" THEN slice(text, unit, unit + 4)
    ELSE IF lower(slice(text, unit, unit + 3)) = "week" THEN slice(text, unit, unit + 3)
    ELSE ""

\* Group 3 of the pattern, (per\s*(month|week))? at position per
frequency_group(text, per) ==
    IF lower(slice(text, per, per + 2)) # "per" THEN ""
    ELSE frequency_word(text, per + 3 + run_len(text, per + 3, Whitespace))

\* The pattern from group 2 on: number is group 2, which starts at from
match_frequency(text, symbol, number, from) ==
    price_of(text, symbol, str_remove(number, ","),
             frequency_group(text, from + Len(number)
                                   + run_len(text, from + Len(number), Whitespace)))

\* regex.match of ([€£]?)\s*(\d[\d,]*\.?\d*)\s*(per\s*(month|week))? without
\* regard to case; symbol is the length of group 1, group 2 starts at from
match_price(text, symbol, from) ==
    IF from > Len(text) \/ char(text, from) \notin Digits THEN NoPrice
    ELSE match_frequency(text, symbol, number_group(text, from), from)

\* Length of group 1 of the pattern, ([€£]?)
currency_symbol_len(text) ==
    IF text # "" /\ char(text, 1) \in {Euro, Pound} THEN 1 ELSE 0

\* parse_price once price_str is stripped and rid of "From " and "AMV: "
parse_price_text(text) ==
    IF str_contains(text, "Price on Application") \/ str_contains(text, "POA")
    THEN NoPrice
    ELSE match_price(text, currency_symbol_len(text),
                     currency_symbol_len(text)
                     + run_len(text, currency_symbol_len(text) + 1, Whitespace) + 1)

\* DaftRealEstateParser.parse_price: strip, drop "From " and "AMV: ", then
\* re.match of the price pattern, then int() of the number without its commas
parse_price(price_str) ==
    IF price_str \in {NoneVal, Absent} THEN Raised(AttributeError)
    ELSE parse_price_text(str_remove(str_remove(strip(price_str), "From "), "AMV: "))

\* The PriceHistory and the frequency parse_price_history makes of what
\* parse_price returned
price_history_of(parsed, publish_date, advert_type) ==
    IF parsed.exc # NoExc THEN parsed
    ELSE Returned([entry |-> PriceHistory(parsed.value[1].price, publish_date, TRUE,
                                          "daft", parsed.value[1].currency_symbol,
                                          advert_type),
                   frequency |-> parsed.value[1].frequency])

\* DaftRealEstateParser.parse_price_history
parse_price_history(price_data, publish_date, advert_type) ==
    price_history_of(parse_price(price_data), publish_date, advert_type)

\* DaftRealEstateParser.parse_advert_type
parse_advert_type(category_data) ==
    CASE category_data \in {"Buy", "New Homes"} -> SALE
      [] category_data \in {"Rent", "Holiday Homes"} -> RENT
      [] category_data = "Share" -> SHARE
      [] category_data = "Sold" -> SOLD
      [] OTHER -> NoneVal

\* str.replace(old, new), old not empty
RECURSIVE str_replace(_, _, _)
str_replace(s, old, new) ==
    IF Len(s) < Len(old) THEN s
    ELSE IF SubSeq(s, 1, Len(old)) = old
         THEN new \o str_replace(SubSeq(s, Len(old) + 1, Len(s)), old, new)
         ELSE SubSeq(s, 1, 1) \o str_replace(SubSeq(s, 2, Len(s)), old, new)

\* DaftRealEstateParser.parse_bedbathrooms
parse_bedbathrooms(bedbathrooms_data) ==
    LET mapped == str_replace(str_replace(str_replace(str_replace(
                      bedbathrooms_data, "Double", "2"), "Single", "1"),
                      "Shared", "1"), "Twin", "1")
        token == first_token(str_replace(mapped, ",", " "))
    IN  IF bedbathrooms_data \in {NoneVal, Absent, ""} THEN NoVal
        ELSE IF is_int(token) THEN Some(digits_value(token))
        ELSE NoVal

\* float(token) of a token without sign or exponent: whole part and the
\* digits of the fraction; NoVal for the ValueError
to_float(token) ==
    LET whole == run_len(token, 1, Digits)
        dot == IF whole < Len(token) /\ char(token, whole + 1) = "." THEN 1 ELSE 0
        frac == run_len(token, whole + dot + 1, Digits)
    IN  IF whole + dot + frac = Len(token) /\ whole + frac > 0
        THEN Some(<<digits_value(SubSeq(token, 1, whole)),
                    SubSeq(token, whole + dot + 1, Len(token))>>)
        ELSE NoVal

IndexError == Exc("IndexError", NoneVal, NoneVal, NoneVal)

\* "float(one_data.pop("propertySize").split()[0])" under "except ValueError"
parse_property_size(property_size) ==
    IF property_size = Absent THEN Returned(NoVal)
    ELSE IF property_size = NoneVal THEN Raised(AttributeError)
    ELSE IF first_token(property_size) = "" THEN Raised(IndexError)
    ELSE Returned(to_float(first_token(property_size)))

\* date_of_construction: None, the year as a number, or the text as it came
parse_date_of_construction(date_of_construction) ==
    IF date_of_construction \in {Absent, NoneVal, "NA"}
    THEN [year |-> NoVal, text |-> NoneVal]
    ELSE IF is_int(date_of_construction)
    THEN [year |-> Some(digits_value(date_of_construction)), text |-> NoneVal]
    ELSE [year |-> NoVal, text |-> date_of_construction]

\* The loop over "priceHistory": the price history it leaves, or the exception
RECURSIVE price_history_loop(_, _, _)

\* One pass of that loop; old_price is what from_dict returned or raised
price_history_step(price_history_data, advert_type, history, old_price) ==
    IF old_price.exc # NoExc THEN old_price
    ELSE price_history_loop(Tail(price_history_data), advert_type,
                            append_new(history, old_price.value[1]))

price_history_loop(price_history_data, advert_type, history) ==
    IF price_history_data = <<>> THEN Returned(history)
    ELSE price_history_step(price_history_data, advert_type, history,
                            from_dict(Head(price_history_data), advert_type))

\* A RealEstate: the fields the model follows. shared holds what is parsed
\* from the raw listing, own what is parsed from the raw listing or the
\* sub-unit; src is the place (category, index) of the raw listing.
RealEstate(shared, own, url, rating, developer_name, src) ==
    [url |-> url, title |-> shared.title, seo_title |-> shared.seo_title,
     seller |-> shared.seller, category |-> shared.category,
     advert_type |-> shared.advert_type, size_sq_m |-> shared.size_sq_m,
     date_of_construction |-> shared.date_of_construction,
     sold |-> shared.sold,
     bedrooms |-> own.bedrooms, bathrooms |-> own.bathrooms,
     price_history |-> own.price_history,
     rent_payment_frequency |-> own.rent_payment_frequency,
     property_type |-> own.property_type,
     real_estate_images |-> own.real_estate_images,
     ber |-> rating, developer_name |-> developer_name, src |-> src]

\* Mutant: only the path is required
lacks_required_path_only(one_data) == one_data.seoFriendlyPath \in {NoneVal, Absent}

\* The two "continue" tests on seoFriendlyPath and title
lacks_required(one_data) ==
    \/ one_data.seoFriendlyPath \in {NoneVal, Absent}
    \/ one_data.title \in {NoneVal, Absent}

\* The first exception of a sequence of statements, given what each of them
\* raises when it is reached (NoExc if it raises nothing)
first_raised(excs) ==
    IF \A i \in DOMAIN excs : excs[i] = NoExc THEN NoExc
    ELSE excs[CHOOSE i \in DOMAIN excs :
                  excs[i] # NoExc /\ \A j \in 1..(i - 1) : excs[j] = NoExc]

\* The exception the body of the prs loop raises on a unit, NoExc if none:
\* unit.pop("media"), the price, the path, unit.get("ber").pop, ber.rating
prs_unit_raises(unit, ber) ==
    first_raised(<<IF unit.has_media THEN NoExc ELSE KeyError,
                   parse_price(unit.price).exc,
                   CASE unit.seoFriendlyPath = Absent -> KeyError
                     [] unit.seoFriendlyPath = NoneVal -> TypeError
                     [] OTHER -> NoExc,
                   IF unit.ber = Absent THEN AttributeError ELSE NoExc,
                   IF ber = NoneVal THEN AttributeError ELSE NoExc>>)

\* The exception the body of the newHome loop raises on a unit, NoExc if none:
\* unit.pop("media"), unit.get("ber").pop, ber.rating, the price
new_home_unit_raises(unit, ber) ==
    first_raised(<<IF unit.has_media THEN NoExc ELSE KeyError,
                   IF unit.ber = Absent THEN AttributeError ELSE NoExc,
                   IF ber = NoneVal THEN AttributeError ELSE NoExc,
                   parse_price(unit.price).exc>>)

\* The units the loop gets through before one raises
RECURSIVE units_done(_, _, _)
units_done(units, ber, is_prs) ==
    IF units = <<>> THEN <<>>
    ELSE IF (IF is_prs THEN prs_unit_raises(Head(units), ber)
             ELSE new_home_unit_raises(Head(units), ber)) # NoExc
         THEN <<>>
         ELSE <<Head(units)>> \o units_done(Tail(units), ber, is_prs)

\* The exception the loop over the units ends with, NoExc if it ends
units_raise(units, ber, is_prs) ==
    LET done == units_done(units, ber, is_prs) IN
    IF Len(done) = Len(units) THEN NoExc
    ELSE IF is_prs THEN prs_unit_raises(units[Len(done) + 1], ber)
    ELSE new_home_unit_raises(units[Len(done) + 1], ber)

\* The loop over the units: the units it gets through and how it ends
units_loop(units, ber, is_prs) ==
    [done |-> units_done(units, ber, is_prs), exc |-> units_raise(units, ber, is_prs)]

\* Mutant: the price history stays as price_history.clear() left it
unit_fields_cleared_history(unit, publish_date, advert_type) ==
    LET price == parse_price_history(unit.price, publish_date, advert_type).value[1] IN
    [bedrooms |-> parse_bedbathrooms(unit.numBedrooms),
     bathrooms |-> parse_bedbathrooms(unit.numBathrooms),
     price_history |-> <<>>,
     rent_payment_frequency |-> price.frequency,
     property_type |-> unit.propertyType,
     real_estate_images |-> unit.images]

\* What the body of a sub-unit loop parses from a unit on which it does not
\* raise
unit_fields(unit, publish_date, advert_type) ==
    LET price == parse_price_history(unit.price, publish_date, advert_type).value[1] IN
    [bedrooms |-> parse_bedbathrooms(unit.numBedrooms),
     bathrooms |-> parse_bedbathrooms(unit.numBathrooms),
     price_history |-> <<price.entry>>,
     rent_payment_frequency |-> price.frequency,
     property_type |-> unit.propertyType,
     real_estate_images |-> unit.images]

\* dict.pop on the keys of a raw listing
popped(one_data, keys) ==
    [k \in DOMAIN one_data |->
        IF k \notin keys THEN one_data[k]
        ELSE IF k \in {"images", "sections", "priceHistory", "publishDate"} THEN <<>>
        ELSE IF k = "ber" THEN NoneVal
        ELSE Absent]

\* "sub_units = prs.pop("subUnits")" and "prs.pop("tagLine")"
prs_popped(prs) ==
    <<[prs[1] EXCEPT !.subUnits = <<>>, !.has_tagLine = FALSE]>>

\* "sub_units = new_homes.pop("subUnits")" and the pop of "developmentName"
new_homes_popped(new_homes) ==
    <<[new_homes[1] EXCEPT !.subUnits = <<>>, !.developmentName = Absent]>>

KeysToSeoTitle == {"seoFriendlyPath", "title", "seoTitle"}
KeysToPrice ==
    KeysToSeoTitle \cup {"seller", "images", "category", "ber", "publishDate", "price"}
KeysToSize ==
    KeysToPrice \cup {"soldPrice", "soldDate", "sections", "numBedrooms",
                      "numBathrooms", "propertySize"}
KeysToHistory == KeysToSize \cup {"dateOfConstruction", "priceHistory"}
KeysToType == KeysToHistory \cup {"propertyType"}

\* Mutant: no url counts as parsed
already_parsed_never(url, urls) == FALSE

\* "if url in parsed_urls"
already_parsed(url, urls) == url \in urls

\* What the body of the loop of get_real_estates does with one raw listing:
\* the urls it adds to parsed_urls, the listings it appends, the exception it
\* raises (NoExc if none) and the raw listing as its pops leave it
Normalized(accepted, appended, exc, left) ==
    [accepted |-> accepted, appended |-> appended, exc |-> exc, left |-> left]

has_prs_units(one_data) ==
    one_data.prs # NoContainer /\ one_data.prs[1].subUnits # <<>>

has_new_home_units(one_data) ==
    one_data.newHome # NoContainer /\ one_data.newHome[1].subUnits # <<>>

\* The sub-unit loops write each unit's rating into the one Ber of the raw
\* listing, which every RealEstate built from it holds: the rating it is left
\* with by the loop over the units
rating_after(done, ber) == IF done = <<>> THEN ber ELSE done[Len(done)].ber

\* The prs branch after the pops of "subUnits" and "tagLine"; loop is the
\* outcome of the loop over the units
prs_fan_out(one_data, url, src, advert_type, shared, loop) ==
    Normalized({url},
               [k \in 1..Len(loop.done) |->
                   RealEstate(shared, unit_fields(loop.done[k], one_data.publishDate, advert_type),
                              Url(loop.done[k].seoFriendlyPath),
                              rating_after(loop.done, one_data.ber), "", src)],
               loop.exc,
               [popped(one_data, KeysToType) EXCEPT !.prs = prs_popped(one_data.prs)])

\* The newHome branch; loop is the outcome of the loop over the units
new_home_fan_out(one_data, url, src, advert_type, shared, loop) ==
    Normalized({url},
               [k \in 1..Len(loop.done) |->
                   RealEstate(shared, unit_fields(loop.done[k], one_data.publishDate, advert_type), url,
                              rating_after(loop.done, one_data.ber),
                              get(one_data.newHome[1].developmentName, NoneVal), src)],
               loop.exc,
               [popped(one_data, KeysToType)
                   EXCEPT !.newHome = new_homes_popped(one_data.newHome)])

\* Mutant: the newHome branch is tried before the prs branch
build_new_home_first(one_data, url, src, advert_type, shared, own) ==
    IF has_new_home_units(one_data)
    THEN new_home_fan_out(one_data, url, src, advert_type, shared,
                          units_loop(one_data.newHome[1].subUnits[1], one_data.ber,
                                     FALSE))
    ELSE IF has_prs_units(one_data)
    THEN prs_fan_out(one_data, url, src, advert_type, shared,
                     units_loop(one_data.prs[1].subUnits[1], one_data.ber, TRUE))
    ELSE Normalized({url}, <<RealEstate(shared, own, url, one_data.ber, "", src)>>,
                    NoExc, popped(one_data, KeysToType))

\* The three branches that build the listings, once every field of the raw
\* listing is parsed
build(one_data, url, src, advert_type, shared, own) ==
    IF has_prs_units(one_data) /\ ~one_data.prs[1].has_tagLine
    THEN Normalized({url}, <<>>, KeyError,
                    [popped(one_data, KeysToType)
                        EXCEPT !.prs = prs_popped(one_data.prs)])
    ELSE IF has_prs_units(one_data)
    THEN prs_fan_out(one_data, url, src, advert_type, shared,
                     units_loop(one_data.prs[1].subUnits[1], one_data.ber, TRUE))
    ELSE IF has_new_home_units(one_data)
    THEN new_home_fan_out(one_data, url, src, advert_type, shared,
                          units_loop(one_data.newHome[1].subUnits[1], one_data.ber,
                                     FALSE))
    ELSE Normalized({url},
                    <<RealEstate([shared EXCEPT !.sold = (advert_type = SOLD)], own,
                                 url, one_data.ber, "", src)>>,
                    NoExc, popped(one_data, KeysToType))

\* The body from the pop of "priceHistory" on; history is what the loop over
\* the embedded price history returned or raised
after_history(one_data, url, src, advert_type, frequency, size, history) ==
    IF history.exc # NoExc
    THEN Normalized({url}, <<>>, history.exc, popped(one_data, KeysToHistory))
    ELSE build(one_data, url, src, advert_type,
               [title |-> one_data.title, seo_title |-> one_data.seoTitle,
                seller |-> get(one_data.seller, NoneVal),
                category |-> one_data.sections, advert_type |-> advert_type,
                size_sq_m |-> size,
                date_of_construction |->
                    parse_date_of_construction(one_data.dateOfConstruction),
                sold |-> FALSE],
               [bedrooms |-> parse_bedbathrooms(one_data.numBedrooms),
                bathrooms |-> parse_bedbathrooms(one_data.numBathrooms),
                price_history |-> history.value[1],
                rent_payment_frequency |-> frequency,
                property_type |-> get(one_data.propertyType, NoneVal),
                real_estate_images |-> one_data.images])

\* The body from "propertySize" on; size is what its parse returned or raised
after_size(one_data, url, src, advert_type, frequency, entries, size) ==
    IF size.exc # NoExc
    THEN Normalized({url}, <<>>, size.exc, popped(one_data, KeysToSize))
    ELSE after_history(one_data, url, src, advert_type, frequency, size.value[1],
                       price_history_loop(one_data.priceHistory, advert_type,
                                          entries))

\* The price history entry of the sold price, as a sequence of one
sold_history(parsed) ==
    IF parsed.exc # NoExc THEN parsed ELSE Returned(<<parsed.value[1].entry>>)

\* "if sold_price and sold_date": the entries the sold price adds to the
\* price history, or the exception of strptime or of the price
sold_entries(sold_price, sold_date, advert_type) ==
    IF sold_date.exc # NoExc THEN sold_date
    ELSE sold_history(parse_price_history(sold_price, sold_date.value, advert_type))

\* The body from "soldPrice" on; headline is the entry and the frequency
\* of the headline price, sold is what sold_entries returned or raised
after_sold(one_data, url, src, advert_type, headline, sold) ==
    IF sold.exc # NoExc
    THEN Normalized({url}, <<>>, sold.exc,
                    popped(one_data, KeysToPrice \cup {"soldPrice", "soldDate"}))
    ELSE after_size(one_data, url, src, advert_type, headline.frequency,
                    <<headline.entry>> \o sold.value[1],
                    parse_property_size(one_data.propertySize))

\* The body from the headline price on; headline is what parse_price_history
\* returned or raised
after_price(one_data, url, src, advert_type, headline) ==
    IF headline.exc # NoExc
    THEN Normalized({url}, <<>>, headline.exc, popped(one_data, KeysToPrice))
    ELSE after_sold(one_data, url, src, advert_type, headline.value[1],
                    IF /\ one_data.soldPrice \notin {Absent, NoneVal, ""}
                       /\ one_data.soldDate \notin {Absent, NoneVal, ""}
                    THEN sold_entries(one_data.soldPrice, strptime(one_data.soldDate),
                                      advert_type)
                    ELSE Returned(<<>>))

\* The body from parsed_urls.add(url) on
after_accept(one_data, url, src, advert_type) ==
    after_price(one_data, url, src, advert_type,
                parse_price_history(one_data.price, one_data.publishDate, advert_type))

\* The body of the loop of get_real_estates on one raw listing, given the
\* urls in parsed_urls; src is the place of the raw listing in data
normalize(one_data, urls, src) ==
    IF lacks_required(one_data) THEN Normalized({}, <<>>, NoExc, one_data)
    ELSE IF already_parsed(Url(one_data.seoFriendlyPath), urls)
    THEN Normalized({}, <<>>, NoExc, popped(one_data, {"seoFriendlyPath"}))
    ELSE IF one_data.seoTitle = Absent
    THEN Normalized({}, <<>>, KeyError, popped(one_data, {"seoFriendlyPath", "title"}))
    ELSE after_accept(one_data, Url(one_data.seoFriendlyPath), src,
                      parse_advert_type(get(one_data.category, "")))

\* The places of the raw listings of data in the order the two loops take them
RECURSIVE places(_, _)
places(d, ci) ==
    IF ci > Len(d) THEN <<>>
    ELSE [i \in 1..Len(d[ci].listings) |-> <<ci, i>>] \o places(d, ci + 1)

raw_at(d, place) == d[place[1]].listings[place[2]]

\* The entry of get_real_estates, called on an object that holds d
enter_get_real_estates(d) ==
    /\ raw_data' = d
    /\ data_obj' = d
    /\ p_pc' = "loop"
    /\ p_next' = 0
    /\ properties' = <<>>
    /\ parsed_urls' = {}
    /\ UNCHANGED <<p_raised, p_result, p_first, scraperVars, insertVars, priceVars>>

\* The first call of get_real_estates(d) of the process
get_real_estates(d) ==
    /\ p_pc = "idle"
    /\ enter_get_real_estates(d)

\* A later call of get_real_estates on the object the last call was given
get_real_estates_same_object ==
    /\ p_pc = "returned"
    /\ i_pc = "idle"
    /\ enter_get_real_estates(data_obj)

\* A later call of get_real_estates on a new object that holds what the first
\* call was given
get_real_estates_equal_data ==
    /\ p_pc = "returned"
    /\ i_pc = "idle"
    /\ enter_get_real_estates(p_first[1].data)

\* Mutant: an exception of the loop body ends the raw listing, not the call
get_real_estates_body_skips(place, done) ==
    /\ parsed_urls' = parsed_urls \cup done.accepted
    /\ properties' = properties \o done.appended
    /\ data_obj' = [data_obj EXCEPT ![place[1]].listings[place[2]] = done.left]
    /\ p_next' = p_next + 1
    /\ p_pc' = "loop"
    /\ p_raised' = p_raised

\* The loop body of get_real_estates on the next raw listing
get_real_estates_body(place, done) ==
    /\ parsed_urls' = parsed_urls \cup done.accepted
    /\ properties' = properties \o done.appended
    /\ data_obj' = [data_obj EXCEPT ![place[1]].listings[place[2]] = done.left]
    /\ p_next' = p_next + 1
    /\ IF done.exc # NoExc
       THEN p_pc' = "raised" /\ p_raised' = done.exc
       ELSE p_pc' = "loop" /\ p_raised' = p_raised

get_real_estates_at(place) ==
    get_real_estates_body(place, normalize(raw_at(data_obj, place), parsed_urls, place))

get_real_estates_loop ==
    /\ p_pc = "loop"
    /\ p_next < Len(places(raw_data, 1))
    /\ get_real_estates_at(places(raw_data, 1)[p_next + 1])
    /\ UNCHANGED <<raw_data, p_result, p_first, scraperVars, insertVars, priceVars>>

\* "return properties"
get_real_estates_return ==
    /\ p_pc = "loop"
    /\ p_next = Len(places(raw_data, 1))
    /\ p_pc' = "returned"
    /\ p_result' = properties
    /\ p_first' = IF p_first = NoVal
                  THEN Some([data |-> raw_data, result |-> properties])
                  ELSE p_first
    /\ UNCHANGED <<raw_data, data_obj, p_next, properties, parsed_urls, p_raised,
                   scraperVars, insertVars, priceVars>>

-----------------------------------------------------------------------------
(* update_daft_data: the insert phase *)

\* Mutant: the url is looked up as it is
ignored_with_origin(url, ign) == url \in Range(ign)

\* "realestate.url.replace("https://www.daft.ie", "") in ignore_ids"
ignored(url, ign) == str_remove(url, Origin) \in Range(ign)

\* "ignore_ids = sql_service.get_real_estate_urls()" after the fetch phase and
\* "scraped_urls = set()"; rows is the url column of the table at that time
insert_phase(rows) ==
    /\ p_pc = "returned"
    /\ i_pc = "idle"
    /\ stored_urls' = rows
    /\ i_ignore_ids' = get_real_estate_urls(rows)
    /\ scraped_urls' = {}
    /\ i_next' = 0
    /\ i_pc' = "loop"
    /\ UNCHANGED <<pc, mode, category, page, start_page, end_page, ignore_ids,
                   scraped_data, page_data, response, requests, pages_out,
                   failures, fetch_exc, raised, result, elapsed, last_gap,
                   min_interval, max_interval, todo, data, inserted, parserVars,
                   priceVars>>

\* The body of "for realestate in properties"; stored tells whether
\* insert_real_estate returns or raises
insert_loop(stored) ==
    /\ i_pc = "loop"
    /\ i_next < Len(p_result)
    /\ i_next' = i_next + 1
    /\ LET realestate == p_result[i_next + 1] IN
       IF ignored(realestate.url, i_ignore_ids)
       THEN UNCHANGED <<i_pc, scraped_urls, inserted, stored_urls>>
       ELSE IF realestate.url \in scraped_urls
       THEN UNCHANGED <<i_pc, scraped_urls, inserted, stored_urls>>
       ELSE /\ scraped_urls' = scraped_urls \cup {realestate.url}
            /\ inserted' = Append(inserted, realestate)
            /\ IF stored
               THEN i_pc' = "loop" /\ stored_urls' = Append(stored_urls, realestate.url)
               ELSE i_pc' = "raised" /\ stored_urls' = stored_urls
    /\ UNCHANGED <<pc, mode, category, page, start_page, end_page, ignore_ids,
                   scraped_data, page_data, response, requests, pages_out,
                   failures, fetch_exc, raised, result, elapsed, last_gap,
                   min_interval, max_interval, todo, data, i_ignore_ids,
                   parserVars, priceVars>>

\* The loop is through
insert_done ==
    /\ i_pc = "loop"
    /\ i_next = Len(p_result)
    /\ i_pc' = "done"
    /\ UNCHANGED <<i_ignore_ids, i_next, scraped_urls, inserted, scraperVars,
                   parserVars, priceVars>>

-----------------------------------------------------------------------------
(* Properties of the pagination controller *)

Last(q) == q[Len(q)]

RECURSIVE Flatten(_)
Flatten(qs) == IF qs = <<>> THEN <<>> ELSE Head(qs) \o Flatten(Tail(qs))

IdsOf(items) == {current_id(items[i]) : i \in 1..Len(items)}

NoDuplicateIds(items) ==
    \A i, j \in 1..Len(items) :
        i # j => current_id(items[i]) # current_id(items[j])

\* The pages of the log rise from first in steps of at most one
RisingFrom(first) ==
    /\ requests # <<>> => requests[1].page = first
    /\ \A i \in 1..(Len(requests) - 1) :
          requests[i + 1].page \in {requests[i].page, requests[i].page + 1}

\* A page is asked for only once every page before it was parsed, and no page
\* is asked for after the pass has returned
OnePageAtATime(first) ==
    /\ requests # <<>> => Last(requests).page <= first + Len(pages_out)
    /\ pc \in {"parse", "cooldown"} => Last(requests).page = first + Len(pages_out)
    /\ requests # <<>> /\ pc = "returned" =>
          Last(requests).page = first + Len(pages_out) - 1

\* The pass goes on over non-empty pages only
StopsAtFirstEmptyPage ==
    \A j \in 1..Len(pages_out) :
        pages_out[j] = <<>> => j = Len(pages_out) /\ pc = "returned"

\* C1: scrape_all_pages asks for pages 1, 2, 3, ... in increasing order, stops
\* at the first page whose parse returns no listing, asks for no page after
\* it, and returns the listings of the pages before it, concatenated in page
\* order.
C1_ScrapeAllPages ==
    mode = "scrape_all_pages" =>
        /\ RisingFrom(1)
        /\ OnePageAtATime(1)
        /\ StopsAtFirstEmptyPage
        /\ scraped_data = Flatten(pages_out)
        /\ pc = "returned" =>
              /\ pages_out # <<>>
              /\ Last(pages_out) = <<>>
              /\ result = Flatten(pages_out)

\* A pass over three pages returned: the third page came back with listings
\* that the ignore list filtered out, and a fetch was retried on the way
C1_Witness ==
    /\ mode = "scrape_all_pages"
    /\ pc = "returned"
    /\ Len(pages_out) = 3
    /\ response.listings # <<>>
    /\ Len(result) >= 3
    /\ failures > 0

NetworkErrors ==
    {"requests.ConnectionError", "requests.Timeout", "requests.HTTPError",
     "RequestException", "ConnectionError", "TimeoutError",
     "ScraperNetworkException"}

\* The listings of a page in page order, the first of each id only
RECURSIVE FirstOfEachId(_, _)
FirstOfEachId(items, seen) ==
    IF items = <<>> THEN <<>>
    ELSE IF current_id(Head(items)) \in seen
         THEN FirstOfEachId(Tail(items), seen)
         ELSE <<Head(items)>> \o
              FirstOfEachId(Tail(items), seen \cup {current_id(Head(items))})

\* C2: scrape_page catches every network failure of a fetch attempt and asks
\* for the same page again after the cooldown, however many attempts fail; no
\* network error leaves scrape_page, scrape_pages or scrape_all_pages; once an
\* attempt succeeds, scrape_page returns the parse of that response.
C2_NetworkErrorsRetried ==
    /\ raised.type \notin NetworkErrors
    /\ \A i \in 1..Len(requests) :
          requests[i].failed =>
              /\ i = Len(requests) => pc \in {"cooldown", "fetch"}
              /\ i < Len(requests) =>
                    /\ requests[i + 1].page = requests[i].page
                    /\ requests[i + 1].payload = requests[i].payload
    /\ pc = "fetch" /\ fetch_exc # NoExc => elapsed >= RetryCooldown
    /\ mode = "scrape_page" /\ pc = "returned" =>
          /\ ~Last(requests).failed
          /\ result = page_data
          /\ IdsOf(result) \subseteq IdsOf(response.listings)
          /\ ignore_ids.is_none => result = FirstOfEachId(response.listings, {})

\* scrape_page returned listings after as many failed attempts as the model
\* allows
C2_Witness ==
    /\ mode = "scrape_page"
    /\ pc = "returned"
    /\ result # <<>>
    /\ failures = MaxFailures
    /\ Len(requests) = MaxFailures + 1

\* The indices of the listings that parse admits, given the ids ignored before
Admitted(listings, before) ==
    {i \in 1..Len(listings) :
        /\ current_id(listings[i]) \notin before
        /\ \A j \in 1..(i - 1) : current_id(listings[j]) # current_id(listings[i])}

\* The listings at the indices of keep, in order
RECURSIVE Pick(_, _, _)
Pick(listings, keep, i) ==
    IF i > Len(listings) THEN <<>>
    ELSE (IF i \in keep THEN <<listings[i]>> ELSE <<>>) \o Pick(listings, keep, i + 1)

ParseContract(ign, body, out, ign_after) ==
    LET before == IF ign.is_none THEN {} ELSE Range(ign.list) IN
    /\ out = Pick(body.listings, Admitted(body.listings, before), 1)
    /\ NoDuplicateIds(out)
    /\ IdsOf(out) \cap before = {}
    /\ ~ign.is_none => Range(ign_after.list) = before \cup IdsOf(out)

\* C3: parse goes through the items in order, skips an item iff its id is in
\* the ignore list at that moment, and otherwise appends it to the output and
\* its id to the list: the output has no two items with one id and no item
\* whose id was in the list before, and the list afterwards is the list before
\* plus the ids of the output.
C3_ParseFiltersAndRecords ==
    [][pc = "parse" /\ pc' # "raised" =>
          ParseContract(ignore_ids, response, page_data', ignore_ids')]_vars

\* A parse that skipped the second of two listings with one id, with a
\* caller-supplied list that held another id before
C3_Witness ==
    /\ pc \in {"fetch", "returned"}
    /\ requests # <<>> /\ ~Last(requests).failed
    /\ response.listings = <<Item("/b"), Item("/b")>>
    /\ page_data = <<Item("/b")>>
    /\ ~ignore_ids.is_none /\ Range(ignore_ids.list) = {"/a", "/b"}

InPass == mode \in {"scrape_pages", "scrape_all_pages"}

Held ==
    [i \in 1..(Len(data) + 1) |->
        IF i <= Len(data) THEN data[i].listings ELSE scraped_data]

C6_ScrapePagesRange ==
    mode = "scrape_pages" =>
        /\ \A i \in 1..Len(requests) :
              start_page <= requests[i].page /\ requests[i].page <= end_page
        /\ RisingFrom(start_page)
        /\ OnePageAtATime(start_page)
        /\ StopsAtFirstEmptyPage
        /\ start_page > end_page =>
              requests = <<>> /\ pc = "returned" /\ result = <<>>
        /\ pc = "returned" /\ start_page <= end_page =>
              /\ result = Flatten(pages_out)
              /\ Last(pages_out) = <<>> \/ Last(requests).page = end_page

\* A pass over pages 2..3 that got listings on both and returned at end_page
C6_Witness ==
    /\ mode = "scrape_pages"
    /\ pc = "returned"
    /\ start_page = 2 /\ end_page = 3
    /\ Len(pages_out) = 2 /\ Last(pages_out) # <<>>

\* The empty range: no request, an empty list
C6_WitnessEmptyRange ==
    mode = "scrape_pages" /\ start_page > end_page /\ pc = "returned"

\* C7: a malformed response is not retried: the error of parse leaves
\* scrape_page and the pagination pass, and no request follows it.
C7_ParseErrorPropagates ==
    /\ response \in MalformedBodies /\ requests # <<>> /\ ~Last(requests).failed =>
          \/ pc = "parse"
          \/ pc = "raised" /\ raised.type \in {"requests.JSONDecodeError", "AttributeError"}
    /\ pc = "raised" =>
          /\ response \in MalformedBodies
          /\ ~Last(requests).failed
          /\ Last(requests).page = start_page + Len(pages_out)
    /\ pc = "returned" => raised = NoExc

\* A pass raised on its second page, on a body that is JSON of another shape
C7_Witness ==
    /\ InPass
    /\ pc = "raised"
    /\ raised.type = "AttributeError"
    /\ Len(pages_out) = 1
    /\ scraped_data # <<>>

\* C8: on one RequestIntervalManager with min_interval <= max_interval, at
\* least min_interval passes between the return of one respect_interval call
\* and the return of the next, so between any two consecutive requests of a
\* fetcher, retries included.
C8_MinIntervalBetweenRequests ==
    \A d \in Range(last_gap.between) : d >= min_interval

\* Two consecutive fetches of one fetcher whose respect_interval calls returned
\* exactly min_interval apart
C8_Witness ==
    /\ min_interval > 1
    /\ Len(requests) >= 2
    /\ last_gap = Gap(min_interval)
    /\ elapsed = 0

\* C25 as stated: whenever respect_interval sleeps, the length of the sleep
\* it asks for lies between min_interval and max_interval, whatever time had
\* elapsed when it was called.
C25_SleepInFullInterval ==
    \A nap \in Range(last_gap.slept) : nap >= min_interval /\ nap <= max_interval

\* C25, amended: respect_interval sleeps only when less than min_interval has
\* elapsed since the last request, and the sleep it asks for is a value of
\* [min_interval, max_interval] less the time elapsed: the elapsed time and
\* the sleep together lie between min_interval and max_interval, and the call
\* returns no earlier than that after the last request.
C25_SleepIsDrawLessElapsed ==
    \A nap \in Range(last_gap.slept) :
        /\ last_gap.waited[1] < min_interval
        /\ nap > 0
        /\ last_gap.waited[1] + nap >= min_interval
        /\ last_gap.waited[1] + nap <= max_interval
        /\ last_gap.between[1] >= last_gap.waited[1] + nap

\* A call found one second elapsed with a min_interval of two and slept one
\* second, less than min_interval
C25_Witness ==
    /\ min_interval = 2
    /\ last_gap.returned
    /\ last_gap.waited = <<1>>
    /\ last_gap.slept = <<1>>
    /\ Len(requests) >= 2

\* C9 as stated: whatever makes fetch fail, a non-success status or a
\* transport failure, the exception that leaves fetch is a
\* ScraperNetworkException with code, message and cause.
C9_FetchRaisesUniformly ==
    fetch_exc # NoExc =>
        /\ fetch_exc.type = "ScraperNetworkException"
        /\ fetch_exc.error_code # NoneVal
        /\ fetch_exc.message # NoneVal
        /\ fetch_exc.cause # NoneVal

\* Every request for a page past the first one of the pass comes after a
\* fetch of the page before it that succeeded, and after that page was parsed
Sequential(first) ==
    /\ \A i \in 1..Len(requests) :
          requests[i].page > first =>
              \E j \in 1..(i - 1) :
                  requests[j].page = requests[i].page - 1 /\ ~requests[j].failed
    /\ requests # <<>> => Last(requests).page <= first + Len(pages_out)

\* No page of the pass admitted an id that a page before it had admitted
LaterPagesSawEarlierIds ==
    \A j, k \in 1..Len(pages_out) :
        j < k => IdsOf(pages_out[j]) \cap IdsOf(pages_out[k]) = {}

FirstPage == IF mode = "scrape_pages" THEN start_page ELSE 1

C27_OffsetsFromTwenty ==
    mode = "scrape_all_pages" =>
        /\ \A i \in 1..Len(requests) :
              /\ requests[i].page >= 1
              /\ requests[i].payload.from = 20 * requests[i].page
              /\ requests[i].payload.pageSize = 20
              /\ requests[i].payload.from # 0
        /\ requests # <<>> => requests[1].payload.from = 20
        /\ \A i \in 1..(Len(requests) - 1) :
              requests[i + 1].payload.from =
                  IF requests[i].failed THEN requests[i].payload.from
                  ELSE requests[i].payload.from + 20

\* scrape_all_pages asked for offsets 20, 40 and 60, the request for 40 twice
\* because its first attempt failed
C27_Witness ==
    /\ mode = "scrape_all_pages"
    /\ Len(requests) = 4
    /\ [i \in 1..4 |-> requests[i].payload.from] = <<20, 40, 40, 60>>
    /\ requests[2].failed

\* The pass left by an exception of parse
ParseRaisedInPass ==
    /\ InPass
    /\ pc = "raised"
    /\ parse_raises(response) # NoExc
    /\ raised = parse_raises(response)

\* C29: when the parse of page N raises in scrape_pages or scrape_all_pages
\* called with an ignore list, the call returns nothing of the pages before N,
\* yet the ids those pages admitted are still in the caller's list, so a parse
\* of any later response with the same list admits none of them.
C29_IgnoreSetKeptOnError ==
    ParseRaisedInPass /\ ~ignore_ids.is_none =>
        /\ result = <<>>
        /\ Len(pages_out) = Last(requests).page - start_page
        /\ scraped_data = Flatten(pages_out)
        /\ IdsOf(scraped_data) \subseteq Range(ignore_ids.list)
        /\ \A body \in WellFormedBodies :
              IdsOf(parse(body, ignore_ids).filtered) \cap IdsOf(scraped_data) = {}

\* scrape_all_pages was called with a list holding /a, its first page admitted
\* /b and the body of its second page was not JSON
C29_Witness ==
    /\ ParseRaisedInPass
    /\ mode = "scrape_all_pages"
    /\ raised.type = "requests.JSONDecodeError"
    /\ Last(requests).page = 2
    /\ scraped_data = <<Item("/b")>>
    /\ ignore_ids = SomeList(<<"/a", "/b">>)

\* A pass of scrape_all_pages called with an ignore list
ListPass == mode = "scrape_all_pages" /\ ~ignore_ids.is_none

\* The parse of a page that admits a listing leaves the list longer
NonEmptyPageEnlarges ==
    ListPass /\ pc = "parse" /\ parse_raises(response) = NoExc /\ page_data' # <<>> =>
        Len(ignore_ids'.list) > Len(ignore_ids.list)

\* The pass is not at a page the model asks nothing after
PageInModel ==
    ListPass /\ pc = "parse" /\ parse_raises(response) = NoExc =>
        page < MaxPage \/ page_exhausted(parse(response, ignore_ids).filtered)

\* C26: a scrape_all_pages call with a caller-supplied ignore list, against an
\* upstream of finitely many listing ids and with no fetch failing for ever,
\* ends: every page that admits a listing makes the list longer, the list only
\* holds ids the caller gave or the upstream offers, and so a page admits
\* nothing, or an error leaves the call, after finitely many pages.
C26_ListPassTerminates ==
    /\ [][NonEmptyPageEnlarges]_vars
    /\ [](ListPass => Range(ignore_ids.list) \subseteq Paths)
    /\ []PageInModel
    /\ (ListPass ~> pc \in {"returned", "raised"})

\* scrape_all_pages returned at its third page: the upstream still answered
\* with listings, all of them in the list by then
C26_Witness ==
    /\ ListPass
    /\ pc = "returned"
    /\ page = 3
    /\ Len(pages_out) = 3
    /\ response.listings # <<>>
    /\ page_data = <<>>
    /\ Range(ignore_ids.list) = Paths

\* Without a list every parse starts from an empty list: the upstream
\* answered every page with the same listing, every page admitted it, and the
\* pass is at the last page of the model with a page that is not empty
C26_NoListPassGoesOn ==
    /\ mode = "scrape_all_pages" /\ ignore_ids.is_none
    /\ pc = "parse"
    /\ page = MaxPage
    /\ \A i \in 1..Len(pages_out) : pages_out[i] = <<Item("/a")>>
    /\ Len(pages_out) = MaxPage - 1
    /\ response.listings = <<Item("/a")>>

-----------------------------------------------------------------------------
(* SpecParser: one call of get_real_estates on the raw listings of two     *)
(* categories                                                              *)

Unit1 == Unit("/u1", TRUE, "A2")
Unit2 == [Unit("/u2", TRUE, "C1") EXCEPT !.price = "From " \o Euro \o "2,100 per week",
             !.numBedrooms = "2 Bed", !.numBathrooms = "Double",
             !.propertyType = "Duplex", !.images = <<"img2">>]
TwoUnits == <<<<Unit1, Unit2>>>>
BadUnits == <<<<Unit1, Unit(Absent, TRUE, "C1")>>>>

Flat == Raw("/a", "Title a", "Seo a", "B1", NoContainer, NoContainer)

\* The raw listings tried: flat ones, ones lacking a key, ones with values
\* that do not parse, developments, one that is both a rental and a new-homes
\* development
RawListings ==
    {Flat,
     Raw(NoneVal, "Title c", "Seo c", "B1", NoContainer, NoContainer),
     Raw("/d", NoneVal, "Seo d", "B1", NoContainer, NoContainer),
     Raw("/e", "Title e", Absent, "B1", NoContainer, NoContainer),
     Raw("/p", "Title p", "Seo p", "B1", Container(TRUE, NoneVal, TwoUnits), NoContainer),
     Raw("/q", "Title q", "Seo q", "B1", Container(TRUE, NoneVal, BadUnits), NoContainer),
     Raw("/r", NoneVal, "Seo r", "B1", Container(TRUE, NoneVal, TwoUnits), NoContainer),
     [Raw("/n", "Title n", "Seo n", "B1", NoContainer, Container(FALSE, "Dev", TwoUnits))
         EXCEPT !.category = "New Homes", !.price = Euro \o "300,000",
                !.priceHistory = <<[Listed EXCEPT !.direction = "Increase",
                                                  !.priceDifference = Euro \o "5,000"]>>],
     [Raw("/b", "Title b", "Seo b", "B1", Container(TRUE, NoneVal, TwoUnits),
          Container(FALSE, "Dev", <<<<Unit1>>>>))
         EXCEPT !.category = "Buy", !.price = Euro \o "300,000",
                !.soldPrice = Euro \o "310,000", !.soldDate = "02/05/2024",
                !.priceHistory = <<Listed>>],
     [Flat EXCEPT !.seoFriendlyPath = "/f", !.numBedrooms = "Studio",
                  !.numBathrooms = Absent, !.propertySize = "n/a",
                  !.dateOfConstruction = "NA", !.price = "Price on Application"],
     [Flat EXCEPT !.seoFriendlyPath = "/g", !.price = Absent],
     [Flat EXCEPT !.seoFriendlyPath = "/h", !.price = Euro \o "1,200.50 per month"],
     [Flat EXCEPT !.seoFriendlyPath = "/j", !.category = "Buy",
                  !.dateOfConstruction = "c. 1900", !.price = "AMV: " \o Euro \o "200,000",
                  !.priceHistory = <<[Listed EXCEPT !.direction = "DECREASE",
                                                   !.priceDifference = Euro \o "20,000"]>>],
     [Flat EXCEPT !.seoFriendlyPath = "/k", !.category = "Buy",
                  !.priceHistory = <<[Listed EXCEPT !.price = "on request"]>>],
     [Flat EXCEPT !.seoFriendlyPath = "/l", !.category = "Sold",
                  !.soldPrice = Euro \o "310,000", !.soldDate = "02/05/2024"],
     [Flat EXCEPT !.seoFriendlyPath = "/m", !.category = "Buy",
                  !.price = Euro \o "200,000", !.publishDate = Some(<<2024, 3, 15>>),
                  !.priceHistory = <<[Listed EXCEPT !.current = Some(TRUE)],
                                     [Listed EXCEPT !.current = Some(TRUE)]>>]}

ParserCategories == <<"residential-to-rent", "new-homes">>

SeqsUpTo(S, n) == UNION {[1..k -> S] : k \in 0..n}

\* The arguments tried: MaxBatch raw listings at most, all in the first of two
\* categories or all but the first one in the second
RawInputs ==
    UNION {{<<[category |-> ParserCategories[1], listings |-> SubSeq(l, 1, k)],
              [category |-> ParserCategories[2], listings |-> SubSeq(l, k + 1, Len(l))]>> :
               k \in {IF l = <<>> THEN 0 ELSE 1, Len(l)}} :
           l \in SeqsUpTo(RawListings, MaxBatch)}

InitParser ==
    /\ Start
    /\ ParserIdle
    /\ stored_urls = <<>>

NextParser ==
    \/ p_pc = "idle" /\ \E d \in RawInputs : get_real_estates(d)
    \/ get_real_estates_same_object
    \/ get_real_estates_equal_data
    \/ get_real_estates_loop
    \/ get_real_estates_return

SpecParser == InitParser /\ [][NextParser]_vars

\* C10: get_real_estates emits no RealEstate for a raw listing that lacks
\* seoFriendlyPath or title, and every RealEstate it emits, in the flat and in
\* both sub-unit branches, has a url and a title that are not None.
C10_ListingsHaveUrlAndTitle ==
    \A k \in 1..Len(properties) :
        /\ properties[k].url # NoneVal
        /\ startswith(properties[k].url, Origin) /\ Len(properties[k].url) > Len(Origin)
        /\ properties[k].title # NoneVal
        /\ raw_at(raw_data, properties[k].src).seoFriendlyPath \notin {NoneVal, Absent}
        /\ raw_at(raw_data, properties[k].src).title \notin {NoneVal, Absent}

\* The call returned the two RealEstates of a rental development, and nothing
\* for a development that lacks the title
C10_Witness ==
    /\ p_pc = "returned"
    /\ Len(p_result) = 2
    /\ p_next = 2
    /\ \E place \in Range(places(raw_data, 1)) :
          /\ raw_at(raw_data, place).title = NoneVal
          /\ raw_at(raw_data, place).prs # NoContainer
    /\ \A k \in 1..2 : raw_at(raw_data, p_result[k].src).prs # NoContainer

\* The call returned the RealEstates of a new-homes development, and nothing
\* for a flat listing that lacks the path
C10_WitnessNewHome ==
    /\ p_pc = "returned"
    /\ Len(p_result) = 2
    /\ p_next = 2
    /\ \E place \in Range(places(raw_data, 1)) :
          raw_at(raw_data, place).seoFriendlyPath = NoneVal
    /\ \A k \in 1..2 : raw_at(raw_data, p_result[k].src).newHome # NoContainer

\* The raw listings of the call, in the order the loops take them
Taken == places(raw_data, 1)
RawOf(j) == raw_at(raw_data, Taken[j])

HasPathAndTitle(raw) ==
    /\ raw.seoFriendlyPath \notin {NoneVal, Absent}
    /\ raw.title \notin {NoneVal, Absent}

\* The raw listing at place j has a path and a title, and no raw listing
\* before it in the call has them and the same path
FirstWithItsUrl(j) ==
    /\ HasPathAndTitle(RawOf(j))
    /\ \A i \in 1..(j - 1) :
          HasPathAndTitle(RawOf(i)) =>
              RawOf(i).seoFriendlyPath # RawOf(j).seoFriendlyPath

\* The RealEstates built from the raw listing at place j, in order
BuiltFrom(listings, j) == SelectSeq(listings, LAMBDA r : r.src = Taken[j])

\* C11: within one get_real_estates call, parsed_urls holds the urls of the
\* raw listings taken so far that have a path and a title, so it is empty when
\* the call starts; and a raw listing whose url is that of a raw listing
\* accepted before it in the call, in the same or another category,
\* contributes no RealEstate.
C11_DuplicateUrlContributesNothing ==
    p_pc \in {"loop", "returned"} =>
        /\ parsed_urls = {Origin \o RawOf(j).seoFriendlyPath :
                             j \in {i \in 1..p_next : HasPathAndTitle(RawOf(i))}}
        /\ \A j \in 1..p_next :
              (HasPathAndTitle(RawOf(j)) /\ ~FirstWithItsUrl(j)) =>
                  BuiltFrom(properties, j) = <<>>

\* A later call returned the one RealEstate the first call returned, for two
\* raw listings with the same path, the first in one category and the second
\* in the other
C11_Witness ==
    /\ p_pc = "returned"
    /\ p_first # NoVal
    /\ raw_data = p_first[1].data
    /\ Len(raw_data[1].listings) = 1
    /\ Len(raw_data[2].listings) = 1
    /\ HasPathAndTitle(RawOf(1))
    /\ RawOf(2) = RawOf(1)
    /\ Len(p_result) = 1
    /\ p_result[1].src = <<1, 1>>
    /\ p_first[1].result = p_result

IsPrs(raw) == raw.prs # NoContainer /\ raw.prs[1].subUnits # <<>>
IsNewHome(raw) ==
    ~IsPrs(raw) /\ raw.newHome # NoContainer /\ raw.newHome[1].subUnits # <<>>

\* r holds what unit states, and what the raw listing states for the whole
\* development
FromUnit(r, unit, raw) ==
    /\ r.bedrooms = parse_bedbathrooms(unit.numBedrooms)
    /\ r.bathrooms = parse_bedbathrooms(unit.numBathrooms)
    /\ r.real_estate_images = unit.images
    /\ r.property_type = unit.propertyType
    /\ Len(r.price_history) = 1
    /\ r.price_history[1].price = parse_price(unit.price).value[1].price
    /\ r.title = raw.title
    /\ r.seller = raw.seller
    /\ r.category = raw.sections

\* C13: when get_real_estates returns, an accepted raw listing with
\* prs.subUnits of length K has yielded exactly K RealEstates, none for the
\* parent, in sub-unit order; each has the url, bedrooms, bathrooms, images,
\* propertyType and a one-entry price history of its own sub-unit, and all
\* share the title, seller and category of the parent.
C13_PrsFanOut ==
    p_pc = "returned" =>
        \A j \in 1..Len(Taken) :
            (FirstWithItsUrl(j) /\ IsPrs(RawOf(j))) =>
                LET units == RawOf(j).prs[1].subUnits[1]
                    built == BuiltFrom(p_result, j)
                IN  /\ Len(built) = Len(units)
                    /\ \A k \in 1..Len(units) :
                          /\ built[k].url = Origin \o units[k].seoFriendlyPath
                          /\ FromUnit(built[k], units[k], RawOf(j))

\* The call returned two RealEstates for a rental development of two units
\* that differ in path, rooms, price, type and images
C13_Witness ==
    /\ p_pc = "returned"
    /\ Len(Taken) = 1
    /\ IsPrs(RawOf(1))
    /\ Len(p_result) = 2
    /\ p_result[1].url = "https://www.daft.ie/u1"
    /\ p_result[2].url = "https://www.daft.ie/u2"
    /\ p_result[1].bedrooms = Some(1)
    /\ p_result[2].bedrooms = Some(2)
    /\ p_result[1].price_history[1].price = Some(1500)
    /\ p_result[2].price_history[1].price = Some(2100)
    /\ p_result[1].title = p_result[2].title

C16_OnlyHistoryPriceRaises ==
    (p_pc = "raised" /\ HasPathAndTitle(RawOf(p_next))
       /\ RawOf(p_next).seoTitle # Absent
       /\ ~IsPrs(RawOf(p_next)) /\ ~IsNewHome(RawOf(p_next))) =>
        \E i \in 1..Len(RawOf(p_next).priceHistory) :
            \/ RawOf(p_next).priceHistory[i].price = Absent
            \/ PriceHistory_parse_price(RawOf(p_next).priceHistory[i].price).exc # NoExc

\* C18 as stated: a later call of get_real_estates on the raw listing data of
\* the first call, with a parsed_urls of its own, returns a list equal to the
\* one the first call returned.
C18_SecondCallReturnsEqualList ==
    (p_pc = "returned" /\ p_first # NoVal) => p_result = p_first[1].result

\* C21 as stated: when get_real_estates returns, every RealEstate built from a
\* sub-unit, in the prs and in the newHome branch, has the rating of its own
\* sub-unit as the rating of its ber.
C21_EachUnitOwnRating ==
    p_pc = "returned" =>
        \A j \in 1..Len(Taken) :
            (FirstWithItsUrl(j) /\ (IsPrs(RawOf(j)) \/ IsNewHome(RawOf(j)))) =>
                LET units == IF IsPrs(RawOf(j)) THEN RawOf(j).prs[1].subUnits[1]
                             ELSE RawOf(j).newHome[1].subUnits[1]
                    built == BuiltFrom(p_result, j)
                IN  \A k \in 1..Len(built) : built[k].ber = units[k].ber

\* The price history of r is the one entry made of the price of unit
OwnPriceOnly(r, unit) ==
    /\ Len(r.price_history) = 1
    /\ r.price_history[1].price = parse_price(unit.price).value[1].price
    /\ r.price_history[1].current

\* C22: when get_real_estates returns, every accepted raw listing went through
\* one branch: the prs branch if it has prs.subUnits (whether or not it has
\* newHome.subUnits), else the newHome branch if it has newHome.subUnits, else
\* the flat branch, which emits one RealEstate whose price history starts with
\* the headline price. In both sub-unit branches the price history of every
\* RealEstate is the one entry of its sub-unit's price: nothing of the
\* headline price, the sold price or the embedded history is kept.
C22_OneBranchInOrder ==
    p_pc = "returned" =>
        \A j \in 1..Len(Taken) :
            FirstWithItsUrl(j) =>
                LET raw == RawOf(j)
                    built == BuiltFrom(p_result, j)
                IN  IF raw.prs # NoContainer /\ raw.prs[1].subUnits # <<>>
                    THEN /\ Len(built) = Len(raw.prs[1].subUnits[1])
                         /\ \A k \in 1..Len(built) :
                               /\ built[k].url = Origin \o raw.prs[1].subUnits[1][k].seoFriendlyPath
                               /\ built[k].developer_name = ""
                               /\ OwnPriceOnly(built[k], raw.prs[1].subUnits[1][k])
                    ELSE IF raw.newHome # NoContainer /\ raw.newHome[1].subUnits # <<>>
                    THEN /\ Len(built) = Len(raw.newHome[1].subUnits[1])
                         /\ \A k \in 1..Len(built) :
                               /\ built[k].developer_name = raw.newHome[1].developmentName
                               /\ OwnPriceOnly(built[k], raw.newHome[1].subUnits[1][k])
                    ELSE /\ Len(built) = 1
                         /\ built[1].url = Origin \o raw.seoFriendlyPath
                         /\ built[1].developer_name = ""
                         /\ built[1].price_history # <<>>
                         /\ built[1].price_history[1].price = parse_price(raw.price).value[1].price

\* The call returned the two RealEstates of the rental sub-units of a raw
\* listing that also has new-homes sub-units, a sold price and an embedded
\* price history: each holds the one price of its sub-unit
C22_Witness ==
    /\ p_pc = "returned"
    /\ Len(Taken) = 1
    /\ IsPrs(RawOf(1))
    /\ RawOf(1).newHome # NoContainer
    /\ RawOf(1).soldPrice # Absent
    /\ RawOf(1).priceHistory # <<>>
    /\ Len(p_result) = 2
    /\ p_result[1].price_history[1].price = Some(1500)
    /\ p_result[2].price_history[1].price = Some(2100)
    /\ \A k \in 1..2 : Len(p_result[k].price_history) = 1

IsFlat(raw) == ~IsPrs(raw) /\ ~IsNewHome(raw)

\* No two entries of history are equal
NoEqualEntries(history) ==
    \A a, b \in 1..Len(history) : a # b => history[a] # history[b]

\* No entry of history after the first states the price and the time of the
\* first, the entry of the headline price
HeadlineOnce(history) ==
    \A a \in 2..Len(history) :
        ~(/\ history[a].price = history[1].price
          /\ history[a].timestamp = history[1].timestamp)

\* C23 as stated: when get_real_estates returns, the price history of the
\* RealEstate of a flat raw listing holds no two equal entries, and an entry of
\* the embedded priceHistory that states the headline price at the publish
\* date has added no second entry for that price.
C23_HeadlineNotRepeated ==
    p_pc = "returned" =>
        \A j \in 1..Len(Taken) :
            (FirstWithItsUrl(j) /\ IsFlat(RawOf(j))) =>
                \A k \in 1..Len(BuiltFrom(p_result, j)) :
                    /\ NoEqualEntries(BuiltFrom(p_result, j)[k].price_history)
                    /\ HeadlineOnce(BuiltFrom(p_result, j)[k].price_history)

\* C24 as stated: every entry of the price history of every RealEstate that
\* get_real_estates returns has category Rent or Sale, whatever the advert
\* type of the raw listing.
C24_EntriesAreRentOrSale ==
    p_pc = "returned" =>
        \A k \in 1..Len(p_result) :
            \A a \in 1..Len(p_result[k].price_history) :
                p_result[k].price_history[a].category \in {RENT, SALE}

\* C28 as stated: in every RealEstate that get_real_estates returns at most one
\* entry of the price history has current = true.
C28_AtMostOneCurrent ==
    p_pc = "returned" =>
        \A k \in 1..Len(p_result) :
            \A a, b \in 1..Len(p_result[k].price_history) :
                (p_result[k].price_history[a].current
                   /\ p_result[k].price_history[b].current) => a = b

\* PriceHistory.parse_price rejects the price of an entry of the embedded
\* price history of raw
RejectedHistory(raw) ==
    \E i \in 1..Len(raw.priceHistory) :
        /\ raw.priceHistory[i].price # Absent
        /\ PriceHistory_parse_price(raw.priceHistory[i].price).exc # NoExc

\* C30: an exception raised on one raw listing leaves get_real_estates: the
\* call ends with that exception and returns no list, whatever it had built
\* from the raw listings before; so a call that returns has taken no accepted
\* raw listing whose embedded price history holds a price that
\* PriceHistory.parse_price rejects.
C30_ExceptionEndsTheCall ==
    /\ p_pc = "raised" => (p_raised # NoExc /\ p_result = <<>> /\ p_first = NoVal)
    /\ p_pc = "returned" =>
          \A j \in 1..Len(Taken) : FirstWithItsUrl(j) => ~RejectedHistory(RawOf(j))

\* The call built a RealEstate from the first raw listing and then raised
\* ValueError on the second, whose embedded price history holds a price that
\* does not parse: nothing was returned
C30_Witness ==
    /\ p_pc = "raised"
    /\ p_raised = ValueError
    /\ p_next = 2
    /\ Len(properties) = 1
    /\ properties[1].src = Taken[1]
    /\ RejectedHistory(RawOf(2))
    /\ p_result = <<>>

-----------------------------------------------------------------------------
(* SpecInsert: get_real_estates and the insert phase of an update run      *)

\* The url column of the table when the insert phase reads it
StoredRows ==
    {<<>>,
     <<Url("/a"), "https://www.myhome.ie/x">>,
     <<Url("/u2"), Url("/f")>>}

\* The data of the run: the raw listings in one category
InsertInputs == {d \in RawInputs : d[2].listings = <<>>}

InitInsert == InitParser

NextInsert ==
    \/ p_pc = "idle" /\ \E d \in InsertInputs : get_real_estates(d)
    \/ get_real_estates_loop
    \/ get_real_estates_return
    \/ \E rows \in StoredRows : insert_phase(rows)
    \/ \E stored \in BOOLEAN : insert_loop(stored)
    \/ insert_done

SpecInsert == InitInsert /\ [][NextInsert]_vars

\* The RealEstates the loop has taken whose path is not stored and whose url
\* no RealEstate before them has, in order
RECURSIVE FirstNotStored(_)
FirstNotStored(k) ==
    IF k = 0 THEN <<>>
    ELSE IF /\ \A i \in 1..Len(i_ignore_ids) :
                  Origin \o i_ignore_ids[i] # p_result[k].url
            /\ \A i \in 1..(k - 1) : p_result[i].url # p_result[k].url
         THEN Append(FirstNotStored(k - 1), p_result[k])
         ELSE FirstNotStored(k - 1)

\* C19: in the insert phase insert_real_estate is called at most once per url
\* and never for a RealEstate whose path is among the stored urls read after
\* the fetch phase; the RealEstates are taken in the order get_real_estates
\* returned them, and of those with one url the first is the one inserted.
C19_InsertOncePerNewUrl ==
    i_pc # "idle" =>
        /\ \A i, j \in 1..Len(inserted) : i # j => inserted[i].url # inserted[j].url
        /\ \A i \in 1..Len(inserted), j \in 1..Len(i_ignore_ids) :
              inserted[i].url # Origin \o i_ignore_ids[j]
        /\ inserted = FirstNotStored(i_next)

\* The run inserted the first of the two RealEstates of a new-homes
\* development, which share a url, and nothing for a flat listing whose path
\* is stored
C19_Witness ==
    /\ i_pc = "done"
    /\ Len(p_result) = 3
    /\ p_result[1].url = p_result[2].url
    /\ p_result[3].url = Url("/a")
    /\ i_ignore_ids = <<"/a">>
    /\ inserted = <<p_result[1]>>

-----------------------------------------------------------------------------
(* SpecFromDict: PriceHistory.from_dict applied to one "priceHistory" entry *)

\* The "priceHistory" entries tried
PriceDatas ==
    {Listed,
     [Listed EXCEPT !.direction = "DECREASE", !.priceDifference = Euro \o "20,000"],
     [Listed EXCEPT !.direction = "INCREASE", !.priceDifference = Euro \o "20,000"],
     [Listed EXCEPT !.direction = "Decrease", !.priceDifference = Euro \o "20,000"],
     [Listed EXCEPT !.direction = "DECREASE"],
     [Listed EXCEPT !.direction = "INCREASE"],
     [Listed EXCEPT !.direction = "SAME", !.priceDifference = Euro \o "5,000"],
     [Listed EXCEPT !.priceDifference = Euro \o "20,000"],
     [Listed EXCEPT !.price = Pound \o "1,200", !.direction = "INCREASE",
                    !.priceDifference = "1,500", !.current = Some(TRUE)],
     [Listed EXCEPT !.price = "AMV: $95,000", !.date = "1/7/2023",
                    !.direction = "", !.current = Some(FALSE)],
     [Listed EXCEPT !.price = "on request"],
     [Listed EXCEPT !.price = "1,200.50"],
     [Listed EXCEPT !.price = Absent],
     [Listed EXCEPT !.date = "31/02/2024"],
     [Listed EXCEPT !.date = "2024-03-15"],
     [Listed EXCEPT !.date = Absent],
     [Listed EXCEPT !.direction = "DECREASE", !.priceDifference = "n/a"]}

AdvertTypes == {RENT, SALE, SHARE, NoneVal}

\* The call PriceHistory.from_dict(ph_data, ph_category)
PriceHistory_from_dict ==
    /\ ph_result = NoVal
    /\ ph_raised = NoExc
    /\ ph_result' = from_dict(ph_data[1], ph_category).value
    /\ ph_raised' = from_dict(ph_data[1], ph_category).exc
    /\ UNCHANGED <<ph_data, ph_category, price_history, ph_current, scraperVars,
                   parserVars, insertVars>>

InitFromDict ==
    /\ Start
    /\ stored_urls = <<>>
    /\ raw_data = <<>> /\ p_pc = "idle" /\ p_next = 0 /\ properties = <<>>
    /\ parsed_urls = {} /\ p_raised = NoExc /\ p_result = <<>>
    /\ data_obj = <<>> /\ p_first = <<>>
    /\ i_pc = "idle" /\ i_ignore_ids = <<>> /\ i_next = 0
    /\ scraped_urls = {} /\ inserted = <<>>
    /\ price_history = <<>>
    /\ ph_data \in {Some(d) : d \in PriceDatas}
    /\ ph_category \in AdvertTypes
    /\ ph_result = NoVal
    /\ ph_raised = NoExc
    /\ ph_current = NoVal

NextFromDict == PriceHistory_from_dict

SpecFromDict == InitFromDict /\ [][NextFromDict]_vars

-----------------------------------------------------------------------------
(* SpecPrice: add_price calls on the price history of one RealEstate       *)

Headline == PriceHistory(Some(200000), NoVal, TRUE, "daft", Euro, SALE)
Earlier == PriceHistory(Some(220000), Some(<<2024, 3, 15>>), TRUE, NoneVal, Euro, SALE)

\* The price histories a RealEstate is constructed with
InitialHistories == {<<>>, <<Headline>>, <<Headline, Earlier>>}

AddedPrices == {250000, 260000}

\* A call of add_price(price, timestamp, current, source) on the RealEstate
RealEstate_add_price(price, timestamp, current, source) ==
    /\ Len(price_history) < MaxHistory
    /\ price_history' = add_price(price_history, price, timestamp, current, source)
    /\ ph_current' = Some(current)
    /\ UNCHANGED <<ph_data, ph_category, ph_result, ph_raised, scraperVars,
                   parserVars, insertVars>>

InitPrice ==
    /\ Start
    /\ stored_urls = <<>>
    /\ raw_data = <<>> /\ p_pc = "idle" /\ p_next = 0 /\ properties = <<>>
    /\ parsed_urls = {} /\ p_raised = NoExc /\ p_result = <<>>
    /\ data_obj = <<>> /\ p_first = <<>>
    /\ i_pc = "idle" /\ i_ignore_ids = <<>> /\ i_next = 0
    /\ scraped_urls = {} /\ inserted = <<>>
    /\ price_history \in InitialHistories
    /\ ph_data = <<>>
    /\ ph_category = NoneVal
    /\ ph_result = NoVal
    /\ ph_raised = NoExc
    /\ ph_current = NoVal

NextPrice ==
    \E price \in AddedPrices, timestamp \in {NoVal, Some(<<2025, 6, 30>>)},
       current \in BOOLEAN :
          RealEstate_add_price(price, timestamp, current, NoneVal)

SpecPrice == InitPrice /\ [][NextPrice]_vars

\* The price and the difference an entry states, the difference 0 if absent
StatedPrice(d) == PriceHistory_parse_price(d.price).value[1].price
StatedDifference(d) ==
    IF d.priceDifference = Absent THEN 0
    ELSE PriceHistory_parse_price(d.priceDifference).value[1].price

\* C15: the price of the entry PriceHistory.from_dict returns is the listed
\* price plus priceDifference when the direction is DECREASE, the listed price
\* minus priceDifference when it is INCREASE, and the listed price when the
\* direction is absent or anything else; an absent priceDifference counts as 0.
\* The direction is read without regard to case.
C15_HistoricalPriceOppositeToDirection ==
    ph_result # NoVal =>
        LET d == ph_data[1]
            direction == IF d.direction = Absent THEN "" ELSE upper(d.direction)
        IN  /\ direction = "DECREASE" =>
                  ph_result[1].price = Some(StatedPrice(d) + StatedDifference(d))
            /\ direction = "INCREASE" =>
                  ph_result[1].price = Some(StatedPrice(d) - StatedDifference(d))
            /\ direction \notin {"DECREASE", "INCREASE"} =>
                  ph_result[1].price = Some(StatedPrice(d))

\* from_dict returned 220000 for a price of 200,000 that fell by 20,000
C15_Witness ==
    /\ ph_result # NoVal
    /\ ph_data[1].direction = "DECREASE"
    /\ ph_data[1].priceDifference = Euro \o "20,000"
    /\ ph_data[1].price = Euro \o "200,000"
    /\ ph_result[1].price = Some(220000)

\* from_dict returned 180000 for the same price after a rise, and 200000 for
\* an entry without a direction
C15_WitnessIncrease ==
    /\ ph_result # NoVal
    /\ ph_data[1].direction = "INCREASE"
    /\ ph_data[1].price = Euro \o "200,000"
    /\ ph_result[1].price = Some(180000)

CurrentEntries(history) == {i \in 1..Len(history) : history[i].current}

\* A step of add_price
AddPriceStep == ph_current' # NoVal /\ price_history' # price_history

\* C17 as stated: add_price sets current=false on every entry already in the
\* price history and appends the new entry with current=true, so that after
\* any add_price call exactly one entry, the last one, has current=true.
C17_ExactlyOneCurrent ==
    [][AddPriceStep =>
          /\ Len(price_history') = Len(price_history) + 1
          /\ \A i \in 1..Len(price_history) :
                price_history'[i] = [price_history[i] EXCEPT !.current = FALSE]
          /\ CurrentEntries(price_history') = {Len(price_history')}]_vars

\* C17, amended: add_price sets current=false on every entry already in the
\* price history and appends the new entry with the current flag it was
\* given, true by default; after a call with current=true exactly one entry,
\* the last one, has current=true.
C17_OneCurrentAfterDefaultAddPrice ==
    [][AddPriceStep =>
          /\ Len(price_history') = Len(price_history) + 1
          /\ \A i \in 1..Len(price_history) :
                price_history'[i] = [price_history[i] EXCEPT !.current = FALSE]
          /\ Last(price_history').current = ph_current'[1]
          /\ ph_current' = Some(TRUE) =>
                CurrentEntries(price_history') = {Len(price_history')}]_vars

\* add_price with current=true was called on a history that held two entries,
\* both of them current
C17_Witness ==
    /\ ph_current = Some(TRUE)
    /\ price_history = <<[Headline EXCEPT !.current = FALSE],
                         [Earlier EXCEPT !.current = FALSE],
                         PriceHistory(Some(250000), Some(Now), TRUE, NoneVal, Euro, RENT)>>

====
